---- MODULE Spec2Model ----
(***************************************************************************)
(* Kubernetes service registry controller of Pilot                         *)
(* (pilot/pkg/serviceregistry/kube/controller/controller.go): the informer *)
(* callbacks, the single-worker task queue with its handler chains, the    *)
(* mirrors servicesMap / externalNameSvcInstanceMap guarded by the         *)
(* controller's RWMutex, the XDSUpdater calls, and the network lookup.     *)
(***************************************************************************)
EXTENDS Integers, Sequences, FiniteSets, TLC

VARIABLES
  synced,        \* informer name -> informer.HasSynced()
  started,       \* informer name -> informer.Run was called
  stopped,       \* the stop channel is closed
  runPc,         \* position of Controller.Run
  workerPc,      \* position of the queue goroutine started by Run
  cur,           \* task whose handler chain is being applied
  queue,         \* kube.Queue: tasks waiting, head first
  delayed,       \* failed tasks waiting for their retry timer
  budget,        \* watch callbacks the informers may still deliver
  nextRV,        \* next resourceVersion the API server hands out
  svcStore,      \* services informer store: key -> v1.Service
  epStore,       \* endpoints informer store: key -> v1.Endpoints
  podStore,      \* pods informer store: the pods listed
  nodeStore,     \* nodes informer store: node name -> v1.Node
  podCache,      \* PodCache: pod IP -> pod
  servicesMap,                 \* c.servicesMap
  externalNameSvcInstanceMap,  \* c.externalNameSvcInstanceMap
  lockW,         \* holder of the exclusive form of c.RWMutex, or "none"
  lockR,         \* threads holding the shared form of c.RWMutex
  ranger,        \* c.ranger: [set |-> BOOLEAN, entries |-> sequence]
  networkForRegistry,  \* c.networkForRegistry
  headless,      \* features.EnableHeadlessService
  emitted,       \* calls made on c.XDSUpdater and the user callback, in order
  pushed,        \* every task ever pushed by a watch callback, by id
  done,          \* ids of the tasks whose chain returned nil, in order
  lastCb,        \* the last watch callback delivered
  rdPc,          \* reader thread -> position inside a read API
  rdArg,         \* reader thread -> argument of the read API in progress
  initPc,        \* position of a caller inside InitNetworkLookup
  initArg,       \* the MeshNetworks the lookup was last built from
  insertOrder,   \* order in which the last InitNetworkLookup ranged over it
  lastCall,      \* the last call of a read API made on its own, with its result
  Env,           \* whether c.Env is set (not nil)
  resultsChan,   \* watcher.resultsChan: the versions sent and not yet received
  errorChan,     \* watcher.errorChan: the error sent and not yet received
  ctxDone,       \* the context of the wait command is cancelled or timed out
  watchPc,       \* position of the goroutine started by watcher.Go
  cmdPc,         \* position of the wait command reading the watcher
  cmdResult,     \* what the wait command returned
  watchEvents    \* events the watch of the resource can still deliver

vars == <<synced, started, stopped, runPc, workerPc, cur, queue, delayed, budget,
          nextRV, svcStore, epStore, podStore, nodeStore, podCache, servicesMap,
          externalNameSvcInstanceMap, lockW, lockR, ranger, networkForRegistry,
          headless, emitted, pushed, done, lastCb, rdPc, rdArg, initPc, initArg,
          insertOrder, lastCall, Env, resultsChan, errorChan, ctxDone, watchPc,
          cmdPc, cmdResult, watchEvents>>

envVars  == <<synced, started, stopped, runPc>>
lockVars == <<lockW, lockR>>
netVars  == <<ranger, networkForRegistry, initPc, initArg, insertOrder>>
rdVars   == <<rdPc, rdArg, lastCall>>
mapVars  == <<servicesMap, externalNameSvcInstanceMap>>
flagVars == <<headless, Env>>
waitVars == <<resultsChan, errorChan, ctxDone, watchPc, cmdPc, cmdResult,
              watchEvents>>
outsideVars == <<flagVars, waitVars>>
storeVars == <<svcStore, epStore, podStore, nodeStore, budget, nextRV, lastCb,
               pushed>>

----------------------------------------------------------------------------
\* Bounds of the model

\* watch callbacks delivered in a behaviour of Spec
MaxEvents == 2
\* watch callbacks delivered in a behaviour of LiveSpec
MaxEventsLive == 2
\* watch callbacks delivered in a behaviour of LockSpec
MaxEventsLock == 1
\* lines of the stats page GetUpdateStatusStats is given in StatsSpec
MaxLines == 3
\* events the watch delivers in a behaviour of WaitSpec
MaxWatchEvents == 2

----------------------------------------------------------------------------
\* Data

Informers == {"services", "endpoints", "pods", "nodes"}
Names     == {"foo", "bar"}
EpNames   == {"foo"}
Namespace == "ns"
domainSuffix == "cluster.local"
ClusterID == "c1"
ClusterIPNone == "None"
Readers == {"r1"}

IP1 == <<10, 1, 2, 3>>
IP2 == <<10, 1, 2, 4>>

NoTask == [id |-> 0]
\* no read API was called yet
NoCall == [api |-> ""]

Remove(m, k) == [x \in (DOMAIN m) \ {k} |-> m[x]]
Put(m, k, v) == [x \in (DOMAIN m) \cup {k} |-> IF x = k THEN v ELSE m[x]]
Last(s) == s[Len(s)]

\* kube.KeyFunc: the store key of an object
KeyFunc(name, namespace) ==
  IF namespace = "" THEN name ELSE namespace \o "/" \o name

\* kube.ServiceHostname
ServiceHostname(name, namespace, suffix) ==
  name \o "." \o namespace \o ".svc." \o suffix

\* v1.Service objects the API server may hold
SvcPort(n, p, tp) == [Name |-> n, Port |-> p, TargetPort |-> tp]
SvcKinds == {"ClusterIP", "Headless", "ExternalName"}
SvcObj(name, kind, rv) ==
  [Name |-> name, Namespace |-> Namespace, ResourceVersion |-> rv,
   Type |-> IF kind = "ExternalName" THEN "ExternalName" ELSE "ClusterIP",
   ClusterIP |-> CASE kind = "ClusterIP" -> "10.0.0.1"
                   [] kind = "Headless" -> ClusterIPNone
                   [] OTHER -> "",
   ExternalName |-> IF kind = "ExternalName" THEN "ext.example.com" ELSE "",
   Ports |-> CASE kind = "ClusterIP" -> <<SvcPort("http", 8080, 9376)>>
               [] kind = "Headless" -> <<SvcPort("tcp", 9000, 9000)>>
               [] OTHER -> <<SvcPort("http", 80, 80)>>]

\* v1.Endpoints objects the API server may hold
Addr(ip, ref) == [IP |-> ip, TargetRef |-> ref]
EpPort(n, p) == [Name |-> n, Port |-> p]
Subset(ready, notReady) ==
  [Addresses |-> ready, NotReadyAddresses |-> notReady,
   Ports |-> <<EpPort("http", 9376)>>]
EpShapes ==
  { <<>>,
    <<Subset(<<Addr(IP1, "Pod")>>, <<>>)>>,
    <<Subset(<<Addr(IP1, "Pod")>>, <<Addr(IP2, "")>>)>>,
    <<Subset(<<Addr(IP1, "Pod"), Addr(IP2, "")>>, <<>>)>> }
EpObj(name, shape, rv) ==
  [Name |-> name, Namespace |-> Namespace, ResourceVersion |-> rv,
   Subsets |-> shape]

\* the pods of the cluster
Pods == { [Name |-> "p1", Namespace |-> Namespace, IP |-> IP1,
           NodeName |-> "n1", ServiceAccountName |-> "sa1",
           Labels |-> {<<"app", "foo">>}] }

\* the MeshNetworks configurations handed to InitNetworkLookup:
\* network name -> sequence of endpoints (a CIDR or a registry name)
Cidr(ip, bits) == [valid |-> TRUE, ip |-> ip, bits |-> bits]
NoCidr == [valid |-> FALSE, ip |-> <<0, 0, 0, 0>>, bits |-> 0]
NetEp(cidr, hasCidr, registry) ==
  [FromCidr |-> cidr, HasCidr |-> hasCidr, FromRegistry |-> registry]
MeshA == [n \in {"netA"} |-> <<NetEp(Cidr(<<10, 1, 2, 0>>, 24), TRUE, "")>>]
MeshB == [n \in {"netB"} |-> <<NetEp(NoCidr, FALSE, ClusterID)>>]
MeshEmpty == [n \in {} |-> <<>>]
MeshConfigs == {MeshA, MeshB, MeshEmpty}

----------------------------------------------------------------------------
\* Pure functions of the controller

\* kube.ConvertService: the model.Service of a v1.Service
ConvertService(svc, suffix, clusterID) ==
  [Hostname |-> ServiceHostname(svc.Name, svc.Namespace, suffix),
   Ports |-> [i \in 1..Len(svc.Ports) |->
                [Name |-> svc.Ports[i].Name, Port |-> svc.Ports[i].Port]],
   Name |-> svc.Name, Namespace |-> svc.Namespace, ClusterID |-> clusterID]

\* kube.ExternalNameServiceInstances: nil unless the Service is of type
\* ExternalName with a name; else one instance per port of the Service
ExternalNameServiceInstances(svc, svcConv) ==
  IF svc.Type # "ExternalName" \/ svc.ExternalName = ""
  THEN [isNil |-> TRUE, list |-> <<>>]
  ELSE [isNil |-> FALSE,
        list |-> [i \in 1..Len(svcConv.Ports) |->
                    [Address |-> svc.ExternalName,
                     Port |-> svcConv.Ports[i].Port,
                     ServicePort |-> svcConv.Ports[i],
                     Service |-> svcConv]]]

\* compareEndpoints: Go's reflect.DeepEqual of two slices is equality of
\* the sequences, element by element
compareEndpoints_WithNotReady(a, b) ==
  /\ Len(a.Subsets) = Len(b.Subsets)
  /\ \A i \in 1..Len(a.Subsets) :
       /\ a.Subsets[i].Ports = b.Subsets[i].Ports
       /\ a.Subsets[i].Addresses = b.Subsets[i].Addresses
       /\ a.Subsets[i].NotReadyAddresses = b.Subsets[i].NotReadyAddresses
compareEndpoints(a, b) ==
  IF Len(a.Subsets) # Len(b.Subsets) THEN FALSE
  ELSE \A i \in 1..Len(a.Subsets) :
         /\ a.Subsets[i].Ports = b.Subsets[i].Ports
         /\ a.Subsets[i].Addresses = b.Subsets[i].Addresses

\* Controller.HasSynced
HasSynced_ThreeInformers ==
  synced["services"] /\ synced["pods"] /\ synced["nodes"]
HasSynced ==
  IF \/ ~synced["services"]
     \/ ~synced["endpoints"]
     \/ ~synced["pods"]
     \/ ~synced["nodes"]
  THEN FALSE ELSE TRUE

\* Controller.notify: TRUE when it returns nil, FALSE when it returns the
\* error "waiting till full synchronization"
notify_Inverted(obj, event) == IF HasSynced THEN FALSE ELSE TRUE
notify(obj, event) == IF ~HasSynced THEN FALSE ELSE TRUE

\* PodCache.getPodByIP: the pod, or a record with found = FALSE for nil
getPodByIP(ip) ==
  IF ip \in DOMAIN podCache
  THEN [found |-> TRUE, pod |-> podCache[ip]]
  ELSE [found |-> FALSE, pod |-> [Name |-> "", Namespace |-> "", IP |-> ip,
                                  Labels |-> {}]]

\* net.IPNet.Contains on IPv4 addresses
IPNum(ip) == ((ip[1] * 256 + ip[2]) * 256 + ip[3]) * 256 + ip[4]
\* the address with its low (32 - bits) bits dropped
Prefix(ip, bits) == IPNum(ip) \div (2 ^ (32 - bits))
Contains(cidr, ip) == cidr.bits = 0 \/ Prefix(cidr.ip, cidr.bits) = Prefix(ip, cidr.bits)

\* cidranger: Insert keeps one entry per network, the last one inserted;
\* ContainingNetworks walks the trie from the root, so it lists the
\* containing networks by growing prefix length
SameNetwork(a, b) == a.bits = b.bits /\ Prefix(a.ip, a.bits) = Prefix(b.ip, b.bits)
RangerInsert(entries, e) ==
  {x \in entries : ~SameNetwork(x.network, e.network)} \cup {e}
ContainingNetworks(entries, ip) ==
  LET S == {e \in entries : Contains(e.network, ip)}
  IN  IF S = {} THEN <<>>
      ELSE CHOOSE s \in [1..Cardinality(S) -> S] :
             /\ \A i, j \in 1..Cardinality(S) : i < j => s[i].network.bits < s[j].network.bits

\* Controller.endpointNetwork on a controller c with the fields
\* networkForRegistry and ranger: the network it returns, whether it asked
\* the ranger, and whether it logged the warning of several matches
endpointNetworkOn_RangerFirst(c, endpointIP) ==
  LET entries == ContainingNetworks(c.ranger.entries, endpointIP)
  IN  IF c.ranger.set /\ Len(entries) > 0
      THEN [network |-> entries[1].name, lookup |-> TRUE, warned |-> Len(entries) > 1]
      ELSE [network |-> c.networkForRegistry, lookup |-> c.ranger.set, warned |-> FALSE]
endpointNetworkOn(c, endpointIP) ==
  IF c.networkForRegistry # ""
  THEN [network |-> c.networkForRegistry, lookup |-> FALSE, warned |-> FALSE]
  ELSE IF ~c.ranger.set THEN [network |-> "", lookup |-> FALSE, warned |-> FALSE]
  ELSE LET entries == ContainingNetworks(c.ranger.entries, endpointIP)
       IN  [network |-> IF Len(entries) = 0 THEN "" ELSE entries[1].name,
            lookup |-> TRUE,
            warned |-> Len(entries) > 1]

\* Controller.endpointNetwork on this controller
endpointNetwork(endpointIP) ==
  endpointNetworkOn([networkForRegistry |-> networkForRegistry, ranger |-> ranger],
                    endpointIP).network

----------------------------------------------------------------------------
\* The read APIs as functions of the controller's state.  A label set is a
\* set of <<key, value>> pairs, a labels.Collection a set of label sets.
\* Of a ServiceInstance the model keeps Address, Port, ServicePort,
\* Network, Locality, Service and Labels.

\* Go's map index on a label set: "" for a missing key
LabelOf(labels, key) ==
  IF \E l \in labels : l[1] = key
  THEN (CHOOSE l \in labels : l[1] = key)[2] ELSE ""

\* the concatenation of a sequence of sequences
RECURSIVE Flatten(_)
Flatten(ss) == IF ss = <<>> THEN <<>> ELSE Head(ss) \o Flatten(Tail(ss))

\* strings.Replace(label, ".", "/", -1)
RECURSIVE ReplaceDots(_)
ReplaceDots(label) ==
  IF Len(label) = 0 THEN ""
  ELSE (IF SubSeq(label, 1, 1) = "." THEN "/" ELSE SubSeq(label, 1, 1))
         \o ReplaceDots(SubSeq(label, 2, Len(label)))

\* model.GetLocalityOrDefault: a label with a "/" is taken as it is, in
\* any other its "." separators become "/"
GetLocalityOrDefault(label, defaultLocality) ==
  IF Len(label) > 0
  THEN IF \E i \in 1..Len(label) : SubSeq(label, i, i) = "/"
       THEN label ELSE ReplaceDots(label)
  ELSE defaultLocality

\* getLabelValue: the label of the node, or the fall-back label
getLabelValue(node, label, fallBackLabel) ==
  IF LabelOf(node.Labels, label) # "" THEN LabelOf(node.Labels, label)
  ELSE LabelOf(node.Labels, fallBackLabel)

\* Controller.GetPodLocality: the locality, and whether the node store was
\* read
GetPodLocality_NodeFirst(pod) ==
  IF pod.NodeName \in DOMAIN nodeStore
  THEN LET region == getLabelValue(nodeStore[pod.NodeName],
                                   "failure-domain.beta.kubernetes.io/region",
                                   "failure-domain.kubernetes.io/region")
           zone == getLabelValue(nodeStore[pod.NodeName],
                                 "failure-domain.beta.kubernetes.io/zone",
                                 "failure-domain.kubernetes.io/zone")
       IN  [locality |-> region \o "/" \o zone, nodeRead |-> TRUE]
  ELSE [locality |-> GetLocalityOrDefault(LabelOf(pod.Labels, "istio-locality"), ""),
        nodeRead |-> TRUE]
GetPodLocality_Fabricated(pod) ==
  IF Len(LabelOf(pod.Labels, "istio-locality")) > 0
  THEN [locality |-> GetLocalityOrDefault(LabelOf(pod.Labels, "istio-locality"), ""),
        nodeRead |-> FALSE]
  ELSE IF pod.NodeName \notin DOMAIN nodeStore
  THEN [locality |-> "/", nodeRead |-> TRUE]
  ELSE LET region == getLabelValue(nodeStore[pod.NodeName],
                                   "failure-domain.beta.kubernetes.io/region",
                                   "failure-domain.kubernetes.io/region")
           zone == getLabelValue(nodeStore[pod.NodeName],
                                 "failure-domain.beta.kubernetes.io/zone",
                                 "failure-domain.kubernetes.io/zone")
       IN  [locality |-> region \o "/" \o zone, nodeRead |-> TRUE]
GetPodLocality(pod) ==
  IF Len(LabelOf(pod.Labels, "istio-locality")) > 0
  THEN [locality |-> GetLocalityOrDefault(LabelOf(pod.Labels, "istio-locality"), ""),
        nodeRead |-> FALSE]
  ELSE IF pod.NodeName \notin DOMAIN nodeStore
  THEN [locality |-> "", nodeRead |-> TRUE]
  ELSE LET region == getLabelValue(nodeStore[pod.NodeName],
                                   "failure-domain.beta.kubernetes.io/region",
                                   "failure-domain.kubernetes.io/region")
           zone == getLabelValue(nodeStore[pod.NodeName],
                                 "failure-domain.beta.kubernetes.io/zone",
                                 "failure-domain.kubernetes.io/zone")
       IN  IF region = "" /\ zone = ""
           THEN [locality |-> "", nodeRead |-> TRUE]
           ELSE [locality |-> region \o "/" \o zone, nodeRead |-> TRUE]

\* kube.SecureNamingSAN: the identity of the pod's service account
SecureNamingSAN(pod) ==
  "spiffe://cluster.local/ns/" \o pod.Namespace \o "/sa/" \o pod.ServiceAccountName

\* the IstioEndpoints updateEDS builds for one ready address: none when the
\* address has no pod in the cache and its TargetRef is a Pod, else one per
\* port of the subset
AddressEndpoints_SkipPodless(ep, ss, ea) ==
  LET p == getPodByIP(ea.IP)
  IN  IF ~p.found THEN <<>>
      ELSE [i \in 1..Len(ss.Ports) |->
              [Address |-> ea.IP,
               EndpointPort |-> ss.Ports[i].Port,
               ServicePortName |-> ss.Ports[i].Name,
               Labels |-> IF p.found THEN p.pod.Labels ELSE {},
               ServiceAccount |-> IF p.found THEN SecureNamingSAN(p.pod) ELSE "",
               Locality |-> IF p.found THEN GetPodLocality(p.pod).locality ELSE "",
               Network |-> endpointNetwork(ea.IP),
               Name |-> ep.Name, Namespace |-> ep.Namespace]]
AddressEndpoints(ep, ss, ea) ==
  LET p == getPodByIP(ea.IP)
  IN  IF ~p.found /\ ea.TargetRef = "Pod" THEN <<>>
      ELSE [i \in 1..Len(ss.Ports) |->
              [Address |-> ea.IP,
               EndpointPort |-> ss.Ports[i].Port,
               ServicePortName |-> ss.Ports[i].Name,
               Labels |-> IF p.found THEN p.pod.Labels ELSE {},
               ServiceAccount |-> IF p.found THEN SecureNamingSAN(p.pod) ELSE "",
               Locality |-> IF p.found THEN GetPodLocality(p.pod).locality ELSE "",
               Network |-> endpointNetwork(ea.IP),
               Name |-> ep.Name, Namespace |-> ep.Namespace]]

RECURSIVE AddressesEndpoints(_, _, _)
AddressesEndpoints(ep, ss, addrs) ==
  IF addrs = <<>> THEN <<>>
  ELSE AddressEndpoints(ep, ss, Head(addrs)) \o AddressesEndpoints(ep, ss, Tail(addrs))

RECURSIVE SubsetsEndpoints(_, _)
SubsetsEndpoints(ep, subsets) ==
  IF subsets = <<>> THEN <<>>
  ELSE AddressesEndpoints(ep, Head(subsets), Head(subsets).Addresses)
         \o SubsetsEndpoints(ep, Tail(subsets))

\* Controller.updateEDS: the call it makes on the XDSUpdater
updateEDS_Merge(id, ep, event) ==
  [call |-> "EDSUpdate", id |-> id, clusterID |-> ClusterID,
   hostname |-> ServiceHostname(ep.Name, ep.Namespace, domainSuffix),
   namespace |-> ep.Namespace,
   endpoints |-> LET prev == {i \in 1..Len(emitted) : emitted[i].call = "EDSUpdate"}
                 IN  (IF prev = {} THEN <<>>
                      ELSE emitted[CHOOSE i \in prev : \A j \in prev : j <= i].endpoints)
                     \o SubsetsEndpoints(ep, ep.Subsets)]
updateEDS(id, ep, event) ==
  [call |-> "EDSUpdate", id |-> id, clusterID |-> ClusterID,
   hostname |-> ServiceHostname(ep.Name, ep.Namespace, domainSuffix),
   namespace |-> ep.Namespace,
   endpoints |-> IF event # "delete" THEN SubsetsEndpoints(ep, ep.Subsets) ELSE <<>>]

\* Controller.updateEDS: the reports it adds to c.Env.PushContext, one for
\* each ready address without pod whose TargetRef is a Pod
updateEDSReports(id, ep, event) ==
  IF event = "delete" \/ ~Env THEN <<>>
  ELSE Flatten([i \in 1..Len(ep.Subsets) |->
         Flatten([j \in 1..Len(ep.Subsets[i].Addresses) |->
           LET ea == ep.Subsets[i].Addresses[j]
           IN  IF ~getPodByIP(ea.IP).found /\ ea.TargetRef = "Pod"
               THEN <<[call |-> "PushContext.Add", id |-> id,
                       status |-> "EndpointNoPod",
                       key |-> ServiceHostname(ep.Name, ep.Namespace, domainSuffix),
                       ip |-> ea.IP]>>
               ELSE <<>>])])

\* labels.Collection.HasSubsetOf: an empty collection accepts every label
\* set, another one accepts the supersets of one of its members
HasSubsetOf(labelsList, that) ==
  labelsList = {} \/ \E this \in labelsList : this \subseteq that

\* model.PortList.GetByPort and model.PortList.Get: the first port with
\* the number, with the name
GetByPort(ports, num) ==
  IF \E i \in 1..Len(ports) : ports[i].Port = num
  THEN [found |-> TRUE,
        port |-> ports[CHOOSE i \in 1..Len(ports) :
                         /\ ports[i].Port = num
                         /\ \A j \in 1..(i - 1) : ports[j].Port # num]]
  ELSE [found |-> FALSE, port |-> [Name |-> "", Port |-> 0]]
Get(ports, name) ==
  IF \E i \in 1..Len(ports) : ports[i].Name = name
  THEN [found |-> TRUE,
        port |-> ports[CHOOSE i \in 1..Len(ports) :
                         /\ ports[i].Name = name
                         /\ \A j \in 1..(i - 1) : ports[j].Name # name]]
  ELSE [found |-> FALSE, port |-> [Name |-> "", Port |-> 0]]

\* the labels of the pod of an address, nil (no labels) without a pod
labelsByIP(ip) == IF getPodByIP(ip).found THEN getPodByIP(ip).pod.Labels ELSE {}

\* InstancesByPort: whether a port of a subset stands for the service port
PortMatches(ss, port, svcPortEntry) ==
  port.Name = "" \/ svcPortEntry.Name = port.Name

\* InstancesByPort: the instances of one ready address of a subset
AddressInstances(svc, svcPortEntry, labelsList, ss, ea) ==
  IF ~HasSubsetOf(labelsList, labelsByIP(ea.IP)) THEN <<>>
  ELSE Flatten([k \in 1..Len(ss.Ports) |->
         IF PortMatches(ss, ss.Ports[k], svcPortEntry)
         THEN <<[Address |-> ea.IP,
                 Port |-> ss.Ports[k].Port,
                 ServicePort |-> svcPortEntry,
                 Network |-> endpointNetwork(ea.IP),
                 Locality |-> IF getPodByIP(ea.IP).found
                              THEN GetPodLocality(getPodByIP(ea.IP).pod).locality
                              ELSE "",
                 Service |-> svc,
                 Labels |-> labelsByIP(ea.IP)]>>
         ELSE <<>>])

\* InstancesByPort: the stored instances of the namespace of the Service
InScopeInstances_All(instances, svc) == instances
InScopeInstances(instances, svc) ==
  SelectSeq(instances, LAMBDA i : i.Service.Namespace = svc.Namespace)

\* Controller.InstancesByPort: the instances, and whether the Endpoints
\* store was asked
InstancesByPort_AllAddresses(svc, reqSvcPort, labelsList) ==
  IF KeyFunc(svc.Name, svc.Namespace) \notin DOMAIN epStore
  THEN [out |-> <<>>, readEndpoints |-> TRUE]
  ELSE IF ~GetByPort(svc.Ports, reqSvcPort).found
  THEN [out |-> <<>>, readEndpoints |-> TRUE]
  ELSE LET ep == epStore[KeyFunc(svc.Name, svc.Namespace)]
       IN  [out |-> Flatten([i \in 1..Len(ep.Subsets) |->
                      Flatten([j \in 1..Len(ep.Subsets[i].Addresses
                                            \o ep.Subsets[i].NotReadyAddresses) |->
                        AddressInstances(svc, GetByPort(svc.Ports, reqSvcPort).port,
                                         labelsList, ep.Subsets[i],
                                         (ep.Subsets[i].Addresses
                                            \o ep.Subsets[i].NotReadyAddresses)[j])])]),
            readEndpoints |-> TRUE]
InstancesByPort(svc, reqSvcPort, labelsList) ==
  IF svc.Hostname \in DOMAIN externalNameSvcInstanceMap
  THEN [out |-> InScopeInstances(externalNameSvcInstanceMap[svc.Hostname], svc),
        readEndpoints |-> FALSE]
  ELSE IF KeyFunc(svc.Name, svc.Namespace) \notin DOMAIN epStore
  THEN [out |-> <<>>, readEndpoints |-> TRUE]
  ELSE IF ~GetByPort(svc.Ports, reqSvcPort).found
  THEN [out |-> <<>>, readEndpoints |-> TRUE]
  ELSE LET ep == epStore[KeyFunc(svc.Name, svc.Namespace)]
       IN  [out |-> Flatten([i \in 1..Len(ep.Subsets) |->
                      Flatten([j \in 1..Len(ep.Subsets[i].Addresses) |->
                        AddressInstances(svc, GetByPort(svc.Ports, reqSvcPort).port,
                                         labelsList, ep.Subsets[i],
                                         ep.Subsets[i].Addresses[j])])]),
            readEndpoints |-> TRUE]

\* ServiceLister.GetPodServices: the Services of the pod's namespace that
\* have a selector and whose selector the pod's labels satisfy, in the
\* order the store lists them
GetPodServices(pod, order) ==
  SelectSeq([i \in 1..Len(order) |-> svcStore[order[i]]],
            LAMBDA svc : /\ svc.Namespace = pod.Namespace
                         /\ svc.HasSelector
                         /\ svc.Selector \subseteq pod.Labels)

\* FindPort: the container port a service port targets in a pod
FindPort(pod, svcPort) ==
  LET ports == Flatten(pod.Containers)
      hits == {i \in 1..Len(ports) : /\ ports[i].Name = svcPort.TargetPort.StrVal
                                     /\ ports[i].Protocol = svcPort.Protocol}
  IN  IF svcPort.TargetPort.Type = "Int"
      THEN [err |-> FALSE, port |-> svcPort.TargetPort.IntVal]
      ELSE IF hits # {}
      THEN [err |-> FALSE,
            port |-> ports[CHOOSE i \in hits : \A j \in hits : i <= j].ContainerPort]
      ELSE [err |-> TRUE, port |-> 0]

\* findPortFromMetadata: the same from the pod ports the proxy reports
findPortFromMetadata(svcPort, podPorts) ==
  LET hits == {i \in 1..Len(podPorts) : podPorts[i].Name = svcPort.TargetPort.StrVal}
  IN  IF svcPort.TargetPort.Type = "Int"
      THEN [err |-> FALSE, port |-> svcPort.TargetPort.IntVal]
      ELSE IF hits # {}
      THEN [err |-> FALSE,
            port |-> podPorts[CHOOSE i \in hits : \A j \in hits : i <= j].ContainerPort]
      ELSE [err |-> TRUE, port |-> 0]

\* Controller.GetProxyWorkloadLabels: indexing the empty proxy.IPAddresses
\* is a run-time panic; without a pod the collection is nil
GetProxyWorkloadLabels(proxy) ==
  IF Len(proxy.IPAddresses) = 0
  THEN [panic |-> TRUE, isNil |-> TRUE, labels |-> {}]
  ELSE LET pod == getPodByIP(proxy.IPAddresses[1])
       IN  IF pod.found
           THEN [panic |-> FALSE, isNil |-> FALSE, labels |-> {pod.pod.Labels}]
           ELSE [panic |-> FALSE, isNil |-> TRUE, labels |-> {}]

\* Controller.getEndpoints
getEndpoints(podIP, address, endpointPort, svcPort, svc) ==
  LET pod == getPodByIP(podIP)
  IN  [Address |-> address,
       Port |-> endpointPort,
       ServicePort |-> svcPort,
       Network |-> endpointNetwork(address),
       Locality |-> IF pod.found THEN GetPodLocality(pod.pod).locality ELSE "",
       Service |-> svc,
       Labels |-> IF pod.found THEN pod.pod.Labels ELSE {}]

hasProxyIP(addresses, proxyIP) ==
  \E i \in 1..Len(addresses) : addresses[i].IP = proxyIP

\* Controller.getProxyServiceInstancesByEndpoint: the instances, and the
\* reports it adds to c.Env.PushContext
getProxyServiceInstancesByEndpoint_ReadyOnly(endpoints, proxy) ==
  LET hostname == ServiceHostname(endpoints.Name, endpoints.Namespace, domainSuffix)
      hits ==
        IF hostname \notin DOMAIN servicesMap THEN <<>>
        ELSE LET svc == servicesMap[hostname]
             IN  Flatten([i \in 1..Len(endpoints.Subsets) |->
                   LET ss == endpoints.Subsets[i]
                   IN  Flatten([k \in 1..Len(ss.Ports) |->
                         LET svcPort == Get(svc.Ports, ss.Ports[k].Name)
                         IN  IF ~svcPort.found THEN <<>>
                             ELSE Flatten([n \in 1..Len(proxy.IPAddresses) |->
                                    LET inst == getEndpoints(proxy.IPAddresses[1],
                                                             proxy.IPAddresses[n],
                                                             ss.Ports[k].Port,
                                                             svcPort.port, svc)
                                    IN  (IF hasProxyIP(ss.Addresses, proxy.IPAddresses[n])
                                         THEN <<[inst |-> inst, notReady |-> FALSE]>>
                                         ELSE <<>>)
                                        ])])])
      notReady == SelectSeq(hits, LAMBDA h : h.notReady)
  IN  [out |-> [n \in 1..Len(hits) |-> hits[n].inst],
       reports |-> IF Env
                   THEN [n \in 1..Len(notReady) |->
                           [status |-> "ProxyStatusEndpointNotReady", id |-> proxy.ID]]
                   ELSE <<>>]
getProxyServiceInstancesByEndpoint(endpoints, proxy) ==
  LET hostname == ServiceHostname(endpoints.Name, endpoints.Namespace, domainSuffix)
      hits ==
        IF hostname \notin DOMAIN servicesMap THEN <<>>
        ELSE LET svc == servicesMap[hostname]
             IN  Flatten([i \in 1..Len(endpoints.Subsets) |->
                   LET ss == endpoints.Subsets[i]
                   IN  Flatten([k \in 1..Len(ss.Ports) |->
                         LET svcPort == Get(svc.Ports, ss.Ports[k].Name)
                         IN  IF ~svcPort.found THEN <<>>
                             ELSE Flatten([n \in 1..Len(proxy.IPAddresses) |->
                                    LET inst == getEndpoints(proxy.IPAddresses[1],
                                                             proxy.IPAddresses[n],
                                                             ss.Ports[k].Port,
                                                             svcPort.port, svc)
                                    IN  (IF hasProxyIP(ss.Addresses, proxy.IPAddresses[n])
                                         THEN <<[inst |-> inst, notReady |-> FALSE]>>
                                         ELSE <<>>)
                                        \o (IF hasProxyIP(ss.NotReadyAddresses,
                                                          proxy.IPAddresses[n])
                                            THEN <<[inst |-> inst, notReady |-> TRUE]>>
                                            ELSE <<>>)])])])
      notReady == SelectSeq(hits, LAMBDA h : h.notReady)
  IN  [out |-> [n \in 1..Len(hits) |-> hits[n].inst],
       reports |-> IF Env
                   THEN [n \in 1..Len(notReady) |->
                           [status |-> "ProxyStatusEndpointNotReady", id |-> proxy.ID]]
                   ELSE <<>>]

\* Controller.getProxyServiceInstancesByPod
getProxyServiceInstancesByPod_PortOfPod(pod, service, proxy) ==
  LET hostname == ServiceHostname(service.Name, service.Namespace, domainSuffix)
  IN  IF hostname \notin DOMAIN servicesMap THEN <<>>
      ELSE LET svc == servicesMap[hostname]
           IN  Flatten([k \in 1..Len(service.Ports) |->
                 LET portNum == FindPort(pod, service.Ports[k])
                 IN  IF portNum.err THEN <<>>
                     ELSE [n \in 1..Len(proxy.IPAddresses) |->
                             getEndpoints(proxy.IPAddresses[1], proxy.IPAddresses[n],
                                          portNum.port,
                                          [Name |-> service.Ports[k].Name,
                                           Port |-> portNum.port],
                                          svc)]])
getProxyServiceInstancesByPod_FirstIPOnly(pod, service, proxy) ==
  LET hostname == ServiceHostname(service.Name, service.Namespace, domainSuffix)
  IN  IF hostname \notin DOMAIN servicesMap THEN <<>>
      ELSE LET svc == servicesMap[hostname]
           IN  Flatten([k \in 1..Len(service.Ports) |->
                 LET svcPort == Get(svc.Ports, service.Ports[k].Name)
                     portNum == FindPort(pod, service.Ports[k])
                 IN  IF ~svcPort.found THEN <<>>
                     ELSE IF portNum.err THEN <<>>
                     ELSE [n \in 1..1 |->
                             getEndpoints(proxy.IPAddresses[1], proxy.IPAddresses[n],
                                          portNum.port, svcPort.port, svc)]])
getProxyServiceInstancesByPod(pod, service, proxy) ==
  LET hostname == ServiceHostname(service.Name, service.Namespace, domainSuffix)
  IN  IF hostname \notin DOMAIN servicesMap THEN <<>>
      ELSE LET svc == servicesMap[hostname]
           IN  Flatten([k \in 1..Len(service.Ports) |->
                 LET svcPort == Get(svc.Ports, service.Ports[k].Name)
                     portNum == FindPort(pod, service.Ports[k])
                 IN  IF ~svcPort.found THEN <<>>
                     ELSE IF portNum.err THEN <<>>
                     ELSE [n \in 1..Len(proxy.IPAddresses) |->
                             getEndpoints(proxy.IPAddresses[1], proxy.IPAddresses[n],
                                          portNum.port, svcPort.port, svc)]])

\* Controller.getProxyServiceInstancesFromMetadata: err stands for every
\* error it returns; an error inside the loops discards what was built
getProxyServiceInstancesFromMetadata_KeepPartial(proxy, order) ==
  LET dummyPod == [Namespace |-> proxy.ConfigNamespace,
                   Labels |-> IF Len(proxy.WorkloadLabels) > 0
                              THEN proxy.WorkloadLabels[1] ELSE {}]
      services == GetPodServices(dummyPod, order)
      hostname(svc) == ServiceHostname(svc.Name, svc.Namespace, domainSuffix)
      built(svc) ==
        IF hostname(svc) \notin DOMAIN servicesMap THEN <<>>
        ELSE Flatten([k \in 1..Len(svc.Ports) |->
               IF \/ ~Get(servicesMap[hostname(svc)].Ports, svc.Ports[k].Name).found
                  \/ findPortFromMetadata(svc.Ports[k], proxy.Metadata.PodPorts).err
               THEN <<>>
               ELSE <<[Address |-> proxy.IPAddresses[1],
                       Port |-> findPortFromMetadata(svc.Ports[k],
                                                     proxy.Metadata.PodPorts).port,
                       ServicePort |-> Get(servicesMap[hostname(svc)].Ports,
                                           svc.Ports[k].Name).port,
                       Network |-> endpointNetwork(proxy.IPAddresses[1]),
                       Locality |-> proxy.Locality,
                       Service |-> servicesMap[hostname(svc)],
                       Labels |-> proxy.WorkloadLabels[1]]>>])
  IN  IF Len(proxy.WorkloadLabels) = 0 THEN [err |-> TRUE, out |-> <<>>]
      ELSE IF proxy.Metadata.ClusterID # ClusterID THEN [err |-> TRUE, out |-> <<>>]
      ELSE IF Len(services) = 0 THEN [err |-> TRUE, out |-> <<>>]
      ELSE [err |-> FALSE,
            out |-> Flatten([i \in 1..Len(services) |-> built(services[i])])]
getProxyServiceInstancesFromMetadata(proxy, order) ==
  LET dummyPod == [Namespace |-> proxy.ConfigNamespace,
                   Labels |-> IF Len(proxy.WorkloadLabels) > 0
                              THEN proxy.WorkloadLabels[1] ELSE {}]
      services == GetPodServices(dummyPod, order)
      hostname(svc) == ServiceHostname(svc.Name, svc.Namespace, domainSuffix)
      failed(svc) ==
        \/ hostname(svc) \notin DOMAIN servicesMap
        \/ \E k \in 1..Len(svc.Ports) :
             \/ ~Get(servicesMap[hostname(svc)].Ports, svc.Ports[k].Name).found
             \/ findPortFromMetadata(svc.Ports[k], proxy.Metadata.PodPorts).err
  IN  IF Len(proxy.WorkloadLabels) = 0 THEN [err |-> TRUE, out |-> <<>>]
      ELSE IF proxy.Metadata.ClusterID # ClusterID THEN [err |-> TRUE, out |-> <<>>]
      ELSE IF Len(services) = 0 THEN [err |-> TRUE, out |-> <<>>]
      ELSE IF \E i \in 1..Len(services) : failed(services[i])
      THEN [err |-> TRUE, out |-> <<>>]
      ELSE [err |-> FALSE,
            out |-> Flatten([i \in 1..Len(services) |->
                      [k \in 1..Len(services[i].Ports) |->
                         [Address |-> proxy.IPAddresses[1],
                          Port |-> findPortFromMetadata(services[i].Ports[k],
                                                        proxy.Metadata.PodPorts).port,
                          ServicePort |-> Get(servicesMap[hostname(services[i])].Ports,
                                              services[i].Ports[k].Name).port,
                          Network |-> endpointNetwork(proxy.IPAddresses[1]),
                          Locality |-> proxy.Locality,
                          Service |-> servicesMap[hostname(services[i])],
                          Labels |-> proxy.WorkloadLabels[1]]]])]

\* Controller.GetProxyServiceInstances, with the order in which the
\* service store and the endpoints store list their objects: the
\* instances, the error, the return statement that gave them (tier), and
\* the reports added to c.Env.PushContext
GetProxyServiceInstances_NoNetworkCheck(proxy, svcOrder, epOrder) ==
  LET NoService ==
        IF Env THEN <<[status |-> "ProxyStatusNoService", id |-> proxy.ID]>> ELSE <<>>
  IN
  IF Len(proxy.IPAddresses) = 0
  THEN [out |-> <<>>, err |-> FALSE, tier |-> "none", reports |-> NoService]
  ELSE
  LET proxyIP == proxy.IPAddresses[1]
      pod == getPodByIP(proxyIP)
      services == IF pod.found THEN GetPodServices(pod.pod, svcOrder) ELSE <<>>
      proxyNamespace == IF pod.found THEN pod.pod.Namespace ELSE ""
      meta == getProxyServiceInstancesFromMetadata(proxy, svcOrder)
      eps == [i \in 1..Len(epOrder) |->
                [ep |-> epStore[epOrder[i]],
                 r |-> getProxyServiceInstancesByEndpoint(epStore[epOrder[i]], proxy)]]
      sameNS == SelectSeq(eps, LAMBDA e : e.ep.Namespace = proxyNamespace)
      differentNS == SelectSeq(eps, LAMBDA e : e.ep.Namespace # proxyNamespace)
      out == Flatten([i \in 1..Len(sameNS) |-> sameNS[i].r.out])
               \o Flatten([i \in 1..Len(differentNS) |-> differentNS[i].r.out])
  IN  IF pod.found /\ Len(services) > 0
      THEN [out |-> Flatten([i \in 1..Len(services) |->
                      getProxyServiceInstancesByPod(pod.pod, services[i], proxy)]),
            err |-> FALSE, tier |-> "pod", reports |-> <<>>]
      ELSE IF ~meta.err
      THEN [out |-> meta.out, err |-> FALSE, tier |-> "metadata", reports |-> <<>>]
      ELSE [out |-> out, err |-> FALSE, tier |-> "headless",
            reports |-> Flatten([i \in 1..Len(eps) |-> eps[i].r.reports])
                          \o (IF Len(out) = 0 THEN NoService ELSE <<>>)]
GetProxyServiceInstances(proxy, svcOrder, epOrder) ==
  LET NoService ==
        IF Env THEN <<[status |-> "ProxyStatusNoService", id |-> proxy.ID]>> ELSE <<>>
  IN
  IF Len(proxy.IPAddresses) = 0
  THEN [out |-> <<>>, err |-> FALSE, tier |-> "none", reports |-> NoService]
  ELSE
  LET proxyIP == proxy.IPAddresses[1]
      pod == getPodByIP(proxyIP)
      services == IF pod.found THEN GetPodServices(pod.pod, svcOrder) ELSE <<>>
      proxyNamespace == IF pod.found THEN pod.pod.Namespace ELSE ""
      meta == getProxyServiceInstancesFromMetadata(proxy, svcOrder)
      eps == [i \in 1..Len(epOrder) |->
                [ep |-> epStore[epOrder[i]],
                 r |-> getProxyServiceInstancesByEndpoint(epStore[epOrder[i]], proxy)]]
      sameNS == SelectSeq(eps, LAMBDA e : e.ep.Namespace = proxyNamespace)
      differentNS == SelectSeq(eps, LAMBDA e : e.ep.Namespace # proxyNamespace)
      out == Flatten([i \in 1..Len(sameNS) |-> sameNS[i].r.out])
               \o Flatten([i \in 1..Len(differentNS) |-> differentNS[i].r.out])
  IN  IF pod.found /\ proxy.Metadata.Network # endpointNetwork(proxyIP)
      THEN [out |-> <<>>, err |-> FALSE, tier |-> "networkMismatch", reports |-> <<>>]
      ELSE IF pod.found /\ Len(services) > 0
      THEN [out |-> Flatten([i \in 1..Len(services) |->
                      getProxyServiceInstancesByPod(pod.pod, services[i], proxy)]),
            err |-> FALSE, tier |-> "pod", reports |-> <<>>]
      ELSE IF ~meta.err
      THEN [out |-> meta.out, err |-> FALSE, tier |-> "metadata", reports |-> <<>>]
      ELSE [out |-> out, err |-> FALSE, tier |-> "headless",
            reports |-> Flatten([i \in 1..Len(eps) |-> eps[i].r.reports])
                          \o (IF Len(out) = 0 THEN NoService ELSE <<>>)]

----------------------------------------------------------------------------
\* The task queue (kube.Queue) and the handler chain (kube.ChainHandler)

\* id and presync are bookkeeping: the rank of the push, and whether some
\* informer had not synced when the task was pushed
Task(otype, obj, event) ==
  [id |-> Len(pushed) + 1, otype |-> otype, obj |-> obj, event |-> event,
   presync |-> \E i \in Informers : ~synced[i]]

\* Queue.Push followed by the bookkeeping of the callback
Push(cb, t) ==
  /\ queue' = Append(queue, t)
  /\ pushed' = Append(pushed, t)
  /\ lastCb' = [cb EXCEPT !.pushedTask = TRUE]

NoPush(cb) ==
  /\ UNCHANGED <<queue, pushed>>
  /\ lastCb' = cb

Callback(otype, kind, old, new) ==
  [n |-> nextRV, otype |-> otype, kind |-> kind, old |-> old, cur |-> new,
   pushedTask |-> FALSE]

\* an informer delivers callbacks while it runs
Delivering(i) == started[i] /\ ~stopped /\ budget > 0

Consume ==
  /\ budget' = budget - 1
  /\ nextRV' = nextRV + 1

\* createCacheHandler: AddFunc, UpdateFunc, DeleteFunc
CacheAddFunc(otype, obj) ==
  Push(Callback(otype, "add", obj, obj), Task(otype, obj, "add"))
CacheUpdateFunc(otype, old, new) ==
  IF old # new
  THEN Push(Callback(otype, "update", old, new), Task(otype, new, "update"))
  ELSE NoPush(Callback(otype, "update", old, new))
CacheDeleteFunc(otype, obj) ==
  Push(Callback(otype, "delete", obj, obj), Task(otype, obj, "delete"))

\* createEDSCacheHandler: AddFunc, UpdateFunc, DeleteFunc
EDSAddFunc(otype, obj) ==
  Push(Callback(otype, "add", obj, obj), Task(otype, obj, "add"))
EDSUpdateFunc(otype, old, new) ==
  IF ~compareEndpoints(old, new)
  THEN Push(Callback(otype, "update", old, new), Task(otype, new, "update"))
  ELSE NoPush(Callback(otype, "update", old, new))
EDSDeleteFunc(otype, obj) ==
  Push(Callback(otype, "delete", obj, obj), Task(otype, obj, "delete"))

\* everything a watch callback leaves alone
CallbackFrame ==
  UNCHANGED <<envVars, workerPc, cur, delayed, nodeStore, podCache, mapVars,
              lockVars, netVars, outsideVars, emitted, done, rdVars>>

----------------------------------------------------------------------------
\* The watch source: the informers of services, endpoints and pods

ServiceAdded ==
  \E name \in Names, kind \in SvcKinds :
    LET key == KeyFunc(name, Namespace)
        obj == SvcObj(name, kind, nextRV)
    IN  /\ Delivering("services")
        /\ key \notin DOMAIN svcStore
        /\ svcStore' = Put(svcStore, key, obj)
        /\ CacheAddFunc("Services", obj)
        /\ Consume
        /\ UNCHANGED <<epStore, podStore>>
        /\ CallbackFrame

ServiceUpdated ==
  \E name \in Names, kind \in SvcKinds, resync \in BOOLEAN :
    LET key == KeyFunc(name, Namespace)
        obj == IF resync THEN svcStore[key] ELSE SvcObj(name, kind, nextRV)
    IN  /\ Delivering("services")
        /\ synced["services"]
        /\ key \in DOMAIN svcStore
        /\ resync => kind = "ClusterIP"
        /\ CacheUpdateFunc("Services", svcStore[key], obj)
        /\ svcStore' = Put(svcStore, key, obj)
        /\ Consume
        /\ UNCHANGED <<epStore, podStore>>
        /\ CallbackFrame

ServiceDeleted ==
  \E name \in Names :
    LET key == KeyFunc(name, Namespace)
    IN  /\ Delivering("services")
        /\ synced["services"]
        /\ key \in DOMAIN svcStore
        /\ CacheDeleteFunc("Services", svcStore[key])
        /\ svcStore' = Remove(svcStore, key)
        /\ Consume
        /\ UNCHANGED <<epStore, podStore>>
        /\ CallbackFrame

EndpointsAdded ==
  \E name \in EpNames, shape \in EpShapes :
    LET key == KeyFunc(name, Namespace)
        obj == EpObj(name, shape, nextRV)
    IN  /\ Delivering("endpoints")
        /\ key \notin DOMAIN epStore
        /\ epStore' = Put(epStore, key, obj)
        /\ EDSAddFunc("Endpoints", obj)
        /\ Consume
        /\ UNCHANGED <<svcStore, podStore>>
        /\ CallbackFrame

EndpointsUpdated ==
  \E name \in EpNames, shape \in EpShapes :
    LET key == KeyFunc(name, Namespace)
        obj == EpObj(name, shape, nextRV)
    IN  /\ Delivering("endpoints")
        /\ synced["endpoints"]
        /\ key \in DOMAIN epStore
        /\ EDSUpdateFunc("Endpoints", epStore[key], obj)
        /\ epStore' = Put(epStore, key, obj)
        /\ Consume
        /\ UNCHANGED <<svcStore, podStore>>
        /\ CallbackFrame

EndpointsDeleted ==
  \E name \in EpNames :
    LET key == KeyFunc(name, Namespace)
    IN  /\ Delivering("endpoints")
        /\ synced["endpoints"]
        /\ key \in DOMAIN epStore
        /\ EDSDeleteFunc("Endpoints", epStore[key])
        /\ epStore' = Remove(epStore, key)
        /\ Consume
        /\ UNCHANGED <<svcStore, podStore>>
        /\ CallbackFrame

\* the pods informer: a pod not in its store is added, a stored pod is
\* deleted
PodEvent ==
  \E pod \in Pods :
    /\ Delivering("pods")
    /\ IF pod \notin podStore
       THEN /\ podStore' = podStore \cup {pod}
            /\ CacheAddFunc("Pod", pod)
       ELSE /\ synced["pods"]
            /\ podStore' = podStore \ {pod}
            /\ CacheDeleteFunc("Pod", pod)
    /\ Consume
    /\ UNCHANGED <<svcStore, epStore>>
    /\ CallbackFrame

\* an informer finishes its initial list
InformerSynced ==
  \E i \in Informers :
    /\ started[i] /\ ~stopped /\ ~synced[i]
    /\ synced' = [synced EXCEPT ![i] = TRUE]
    /\ UNCHANGED <<started, stopped, runPc, workerPc, cur, queue, delayed,
                   storeVars, podCache, mapVars, lockVars, netVars, outsideVars,
                   emitted, done, rdVars>>

----------------------------------------------------------------------------
\* Controller.Run and the stop signal

\* Run: starts the queue goroutine and the services, pods and nodes
\* informers, then waits for these three informers
Run ==
  /\ runPc = "created"
  /\ runPc' = "waitSync"
  /\ workerPc' = "waitSync"
  /\ started' = [i \in Informers |-> i # "endpoints"]
  /\ UNCHANGED <<synced, stopped, cur, queue, delayed, storeVars, podCache,
                 mapVars, lockVars, netVars, outsideVars, emitted, done, rdVars>>

\* Run: cache.WaitForCacheSync(stop, nodes, pods, services) returns, the
\* endpoints informer is started and Run blocks on <-stop
RunStartEndpoints_NoWait ==
  /\ runPc = "waitSync"
  /\ started' = [started EXCEPT !["endpoints"] = TRUE]
  /\ runPc' = "blocked"
  /\ UNCHANGED <<synced, stopped, workerPc, cur, queue, delayed, storeVars,
                 podCache, mapVars, lockVars, netVars, outsideVars, emitted, done,
                 rdVars>>
RunStartEndpoints ==
  /\ runPc = "waitSync"
  /\ \/ synced["nodes"] /\ synced["pods"] /\ synced["services"]
     \/ stopped
  /\ started' = [started EXCEPT !["endpoints"] = TRUE]
  /\ runPc' = "blocked"
  /\ UNCHANGED <<synced, stopped, workerPc, cur, queue, delayed, storeVars,
                 podCache, mapVars, lockVars, netVars, outsideVars, emitted, done,
                 rdVars>>

\* Run: <-stop returns
RunReturns ==
  /\ runPc = "blocked"
  /\ stopped
  /\ runPc' = "terminated"
  /\ UNCHANGED <<synced, started, stopped, workerPc, cur, queue, delayed,
                 storeVars, podCache, mapVars, lockVars, netVars, outsideVars,
                 emitted, done, rdVars>>

\* the owner of the stop channel closes it
Stop_Reopens ==
  /\ runPc # "created"
  /\ stopped' = ~stopped
  /\ UNCHANGED <<synced, started, runPc, workerPc, cur, queue, delayed,
                 storeVars, podCache, mapVars, lockVars, netVars, outsideVars,
                 emitted, done, rdVars>>
Stop ==
  /\ runPc # "created"
  /\ ~stopped
  /\ stopped' = TRUE
  /\ UNCHANGED <<synced, started, runPc, workerPc, cur, queue, delayed,
                 storeVars, podCache, mapVars, lockVars, netVars, outsideVars,
                 emitted, done, rdVars>>

\* the queue goroutine of Run: cache.WaitForCacheSync(stop, c.HasSynced)
\* returns and c.queue.Run(stop) begins
QueueRun_NoWait ==
  /\ workerPc = "waitSync"
  /\ workerPc' = "idle"
  /\ UNCHANGED <<envVars, cur, queue, delayed, storeVars, podCache, mapVars,
                 lockVars, netVars, outsideVars, emitted, done, rdVars>>
QueueRun ==
  /\ workerPc = "waitSync"
  /\ HasSynced \/ stopped
  /\ workerPc' = "idle"
  /\ UNCHANGED <<envVars, cur, queue, delayed, storeVars, podCache, mapVars,
                 lockVars, netVars, outsideVars, emitted, done, rdVars>>

----------------------------------------------------------------------------
\* The queue worker

workerFrame ==
  UNCHANGED <<envVars, storeVars, netVars, outsideVars, rdVars>>

\* the position the chain of a task continues at once notify returned nil
HandlerPc(t) ==
  CASE t.otype = "Services" -> "svcLock"
    [] t.otype = "Endpoints" -> "epHandler"
    [] OTHER -> "podHandler"

\* Queue.Run: the worker takes the head of the queue and applies its chain;
\* when the entry handler notify fails, the task waits for its retry timer
Dispatch ==
  /\ workerPc = "idle"
  /\ queue # <<>>
  /\ queue' = Tail(queue)
  /\ IF notify(Head(queue).obj, Head(queue).event)
     THEN /\ cur' = Head(queue)
          /\ workerPc' = HandlerPc(Head(queue))
          /\ UNCHANGED delayed
     ELSE /\ delayed' = delayed \cup {Head(queue)}
          /\ UNCHANGED <<cur, workerPc>>
  /\ UNCHANGED <<envVars, svcStore, epStore, podStore, nodeStore, budget, nextRV, lastCb,
                 pushed, podCache, mapVars, lockVars, netVars, outsideVars,
                 emitted, done, rdVars>>

\* the retry timer of a failed task fires: the task is pushed again
Retry ==
  \E t \in delayed :
    /\ delayed' = delayed \ {t}
    /\ queue' = Append(queue, t)
    /\ UNCHANGED <<envVars, workerPc, cur, svcStore, epStore, podStore, nodeStore, budget,
                   nextRV, lastCb, pushed, podCache, mapVars, lockVars,
                   netVars, outsideVars, emitted, done, rdVars>>

\* Queue.Run after the stop signal: the worker may leave the tasks that
\* are left
WorkerExits ==
  /\ workerPc = "idle"
  /\ stopped
  /\ workerPc' = "exited"
  /\ UNCHANGED <<envVars, cur, queue, delayed, storeVars, podCache, mapVars,
                 lockVars, netVars, outsideVars, emitted, done, rdVars>>

\* the lock of c.RWMutex the thread holds
Held(thread) ==
  IF lockW = thread THEN "W" ELSE IF thread \in lockR THEN "R" ELSE "none"

Finished(t) ==
  /\ done' = Append(done, t.id)
  /\ cur' = NoTask
  /\ workerPc' = "idle"

\* the dynamic type of the object of a task: a *v1.Service, a
\* *v1.Endpoints, or a cache.DeletedFinalStateUnknown around an object
IsService(obj) == "ClusterIP" \in DOMAIN obj
IsEndpoints(obj) == "Subsets" \in DOMAIN obj
IsTombstone(obj) == "Obj" \in DOMAIN obj
Tombstone(obj) == [Key |-> "", Obj |-> obj]

\* handler of AppendServiceHandler: obj is not a *v1.Service; the Service
\* of a tombstone is taken out of it, and for any other object the handler
\* logs and returns nil
SvcTypeAssert_Retry ==
  /\ workerPc = "svcLock"
  /\ ~IsService(cur.obj)
  /\ IF IsTombstone(cur.obj) /\ IsService(cur.obj.Obj)
     THEN /\ cur' = [cur EXCEPT !.obj = cur.obj.Obj]
          /\ UNCHANGED <<workerPc, done, delayed>>
     ELSE /\ delayed' = delayed \cup {cur}
          /\ cur' = NoTask
          /\ workerPc' = "idle"
          /\ UNCHANGED done
  /\ UNCHANGED <<lockVars, queue, podCache, mapVars, emitted>>
  /\ workerFrame
SvcTypeAssert ==
  /\ workerPc = "svcLock"
  /\ ~IsService(cur.obj)
  /\ IF IsTombstone(cur.obj) /\ IsService(cur.obj.Obj)
     THEN /\ cur' = [cur EXCEPT !.obj = cur.obj.Obj]
          /\ UNCHANGED <<workerPc, done>>
     ELSE Finished(cur)
  /\ UNCHANGED <<lockVars, queue, delayed, podCache, mapVars, emitted>>
  /\ workerFrame

\* handler of AppendInstanceHandler: the same for a *v1.Endpoints
EpTypeAssert ==
  /\ workerPc = "epHandler"
  /\ ~IsEndpoints(cur.obj)
  /\ IF IsTombstone(cur.obj) /\ IsEndpoints(cur.obj.Obj)
     THEN /\ cur' = [cur EXCEPT !.obj = cur.obj.Obj]
          /\ UNCHANGED <<workerPc, done>>
     ELSE Finished(cur)
  /\ UNCHANGED <<lockVars, queue, delayed, podCache, mapVars, emitted>>
  /\ workerFrame

\* handler of AppendServiceHandler: c.Lock()
SvcLock_NoLock ==
  /\ workerPc = "svcLock"
  /\ IsService(cur.obj)
  /\ workerPc' = "svcWriteServices"
  /\ UNCHANGED <<lockVars, cur, queue, delayed, podCache, mapVars, emitted,
                 done>>
  /\ workerFrame
SvcLock ==
  /\ workerPc = "svcLock"
  /\ IsService(cur.obj)
  /\ lockW = "none" /\ lockR = {}
  /\ lockW' = "worker"
  /\ workerPc' = "svcWriteServices"
  /\ UNCHANGED <<lockR, cur, queue, delayed, podCache, mapVars, emitted, done>>
  /\ workerFrame

\* handler of AppendServiceHandler: the write of c.servicesMap
SvcWriteServices ==
  /\ workerPc = "svcWriteServices"
  /\ LET svcConv == ConvertService(cur.obj, domainSuffix, ClusterID)
     IN  servicesMap' = IF cur.event = "delete"
                        THEN Remove(servicesMap, svcConv.Hostname)
                        ELSE Put(servicesMap, svcConv.Hostname, svcConv)
  /\ workerPc' = "svcWriteExternal"
  /\ UNCHANGED <<lockVars, cur, queue, delayed, podCache,
                 externalNameSvcInstanceMap, emitted, done>>
  /\ workerFrame

\* handler of AppendServiceHandler: the write of
\* c.externalNameSvcInstanceMap, then c.Unlock()
SvcWriteExternal_KeepStale ==
  /\ workerPc = "svcWriteExternal"
  /\ LET svcConv == ConvertService(cur.obj, domainSuffix, ClusterID)
         instances == ExternalNameServiceInstances(cur.obj, svcConv)
     IN  externalNameSvcInstanceMap' =
           IF cur.event = "delete" \/ instances.isNil
           THEN externalNameSvcInstanceMap
           ELSE Put(externalNameSvcInstanceMap, svcConv.Hostname, instances.list)
  /\ lockW' = IF lockW = "worker" THEN "none" ELSE lockW
  /\ workerPc' = "svcEmit"
  /\ UNCHANGED <<lockR, cur, queue, delayed, podCache, servicesMap, emitted, done>>
  /\ workerFrame
SvcWriteExternal_KeepOnDelete ==
  /\ workerPc = "svcWriteExternal"
  /\ LET svcConv == ConvertService(cur.obj, domainSuffix, ClusterID)
         instances == ExternalNameServiceInstances(cur.obj, svcConv)
     IN  externalNameSvcInstanceMap' =
           IF cur.event = "delete" THEN externalNameSvcInstanceMap
           ELSE IF instances.isNil
           THEN Remove(externalNameSvcInstanceMap, svcConv.Hostname)
           ELSE Put(externalNameSvcInstanceMap, svcConv.Hostname, instances.list)
  /\ lockW' = IF lockW = "worker" THEN "none" ELSE lockW
  /\ workerPc' = "svcEmit"
  /\ UNCHANGED <<lockR, cur, queue, delayed, podCache, servicesMap, emitted, done>>
  /\ workerFrame
SvcWriteExternal ==
  /\ workerPc = "svcWriteExternal"
  /\ LET svcConv == ConvertService(cur.obj, domainSuffix, ClusterID)
         instances == ExternalNameServiceInstances(cur.obj, svcConv)
     IN  externalNameSvcInstanceMap' =
           IF cur.event = "delete" \/ instances.isNil
           THEN Remove(externalNameSvcInstanceMap, svcConv.Hostname)
           ELSE Put(externalNameSvcInstanceMap, svcConv.Hostname, instances.list)
  /\ lockW' = IF lockW = "worker" THEN "none" ELSE lockW
  /\ workerPc' = "svcEmit"
  /\ UNCHANGED <<lockR, cur, queue, delayed, podCache, servicesMap, emitted, done>>
  /\ workerFrame

\* handler of AppendServiceHandler: c.XDSUpdater.SvcUpdate, then the
\* caller's f(svcConv, event); the chain returns nil
SvcUpdateCall(t) ==
  [call |-> "SvcUpdate", id |-> t.id, clusterID |-> ClusterID,
   name |-> t.obj.Name, namespace |-> t.obj.Namespace, event |-> t.event]
ServiceCallback(t) ==
  [call |-> "f", id |-> t.id,
   svc |-> ConvertService(t.obj, domainSuffix, ClusterID), event |-> t.event]
SvcEmit_SkipDelete ==
  /\ workerPc = "svcEmit"
  /\ emitted' = IF cur.event = "delete" THEN emitted
                ELSE emitted \o <<SvcUpdateCall(cur), ServiceCallback(cur)>>
  /\ Finished(cur)
  /\ UNCHANGED <<lockVars, queue, delayed, podCache, mapVars>>
  /\ workerFrame
SvcEmit_CallbackFirst ==
  /\ workerPc = "svcEmit"
  /\ emitted' = emitted \o <<ServiceCallback(cur), SvcUpdateCall(cur)>>
  /\ Finished(cur)
  /\ UNCHANGED <<lockVars, queue, delayed, podCache, mapVars>>
  /\ workerFrame
SvcEmit ==
  /\ workerPc = "svcEmit"
  /\ emitted' = emitted \o <<SvcUpdateCall(cur), ServiceCallback(cur)>>
  /\ Finished(cur)
  /\ UNCHANGED <<lockVars, queue, delayed, podCache, mapVars>>
  /\ workerFrame

\* handler of AppendInstanceHandler: a full push for the Endpoints of a
\* headless Service when the feature is on, else updateEDS
ConfigUpdateCall(t) ==
  [call |-> "ConfigUpdate", id |-> t.id, full |-> TRUE,
   namespace |-> t.obj.Namespace]
IsHeadless_FeatureIgnored(ep) ==
  /\ KeyFunc(ep.Name, ep.Namespace) \in DOMAIN svcStore
  /\ svcStore[KeyFunc(ep.Name, ep.Namespace)].ClusterIP = ClusterIPNone
IsHeadless(ep) ==
  /\ headless
  /\ KeyFunc(ep.Name, ep.Namespace) \in DOMAIN svcStore
  /\ svcStore[KeyFunc(ep.Name, ep.Namespace)].ClusterIP = ClusterIPNone
EpHandler_FallThrough ==
  /\ workerPc = "epHandler"
  /\ IsEndpoints(cur.obj)
  /\ emitted' = (IF IsHeadless(cur.obj) THEN <<ConfigUpdateCall(cur)>> ELSE <<>>)
                  \o <<updateEDS(cur.id, cur.obj, cur.event)>>
  /\ Finished(cur)
  /\ UNCHANGED <<lockVars, queue, delayed, podCache, mapVars>>
  /\ workerFrame
EpHandler ==
  /\ workerPc = "epHandler"
  /\ IsEndpoints(cur.obj)
  /\ IF IsHeadless(cur.obj)
     THEN emitted' = Append(emitted, ConfigUpdateCall(cur))
     ELSE emitted' = emitted \o updateEDSReports(cur.id, cur.obj, cur.event)
                             \o <<updateEDS(cur.id, cur.obj, cur.event)>>
  /\ Finished(cur)
  /\ UNCHANGED <<lockVars, queue, delayed, podCache, mapVars>>
  /\ workerFrame

\* handler of the PodCache: the pod is stored by its IP, or removed
PodHandler ==
  /\ workerPc = "podHandler"
  /\ podCache' = IF cur.event = "delete" THEN Remove(podCache, cur.obj.IP)
                 ELSE Put(podCache, cur.obj.IP, cur.obj)
  /\ Finished(cur)
  /\ UNCHANGED <<lockVars, queue, delayed, mapVars, emitted>>
  /\ workerFrame

----------------------------------------------------------------------------
\* The read APIs, called from other threads

ReadAPIs == {"Services", "GetService", "InstancesByPort"}
Hostnames == {ServiceHostname(n, Namespace, domainSuffix) : n \in Names}

\* the field of the controller the API reads under c.RLock()
FieldRead(api) ==
  IF api = "InstancesByPort" THEN "externalNameSvcInstanceMap" ELSE "servicesMap"

\* Services, GetService, InstancesByPort: c.RLock()
ReadLock ==
  \E r \in Readers, api \in ReadAPIs, name \in Names :
    /\ rdPc[r] = "idle"
    /\ api = "Services" => name = "foo"
    /\ lockW = "none"
    /\ lockR' = lockR \cup {r}
    /\ rdPc' = [rdPc EXCEPT ![r] = api]
    /\ rdArg' = [rdArg EXCEPT ![r] = name]
    /\ UNCHANGED <<envVars, workerPc, cur, queue, delayed, storeVars, podCache,
                   mapVars, lockW, netVars, outsideVars, emitted, done, lastCall>>

\* InstancesByPort goes on to the Endpoints store when the Service has no
\* externally-named instances, an Endpoints object and the requested port
ReadsEndpoints(name) ==
  /\ ServiceHostname(name, Namespace, domainSuffix) \notin DOMAIN externalNameSvcInstanceMap
  /\ KeyFunc(name, Namespace) \in DOMAIN epStore
  /\ \E i \in 1..Len(epStore[KeyFunc(name, Namespace)].Subsets) :
       epStore[KeyFunc(name, Namespace)].Subsets[i].Addresses # <<>>

\* Services, GetService, InstancesByPort: the read of the map, c.RUnlock()
ReadMap ==
  \E r \in Readers :
    /\ rdPc[r] \in ReadAPIs
    /\ lockR' = lockR \ {r}
    /\ rdPc' = [rdPc EXCEPT ![r] =
                  IF rdPc[r] = "InstancesByPort" /\ ReadsEndpoints(rdArg[r])
                  THEN "endpointNetwork" ELSE "idle"]
    /\ UNCHANGED <<envVars, workerPc, cur, queue, delayed, storeVars, podCache,
                   mapVars, lockW, netVars, outsideVars, emitted, done, rdArg, lastCall>>

\* InstancesByPort: c.endpointNetwork(ea.IP) for the instances it builds
ReadNetwork ==
  \E r \in Readers :
    /\ rdPc[r] = "endpointNetwork"
    /\ rdPc' = [rdPc EXCEPT ![r] = "idle"]
    /\ UNCHANGED <<envVars, workerPc, cur, queue, delayed, storeVars, podCache,
                   mapVars, lockVars, netVars, outsideVars, emitted, done, rdArg, lastCall>>

----------------------------------------------------------------------------
\* Controller.InitNetworkLookup, called by the owner of the mesh networks

\* the endpoints of one network, in order
RECURSIVE InsertEndpoints_KeepInvalid(_, _, _)
InsertEndpoints_KeepInvalid(net, n, eps) ==
  IF eps = <<>> THEN net
  ELSE LET ep == Head(eps)
           entries == IF ep.HasCidr
                      THEN RangerInsert(net.entries, [name |-> n, network |-> ep.FromCidr])
                      ELSE net.entries
           registry == IF ep.FromRegistry # "" /\ ep.FromRegistry = ClusterID
                       THEN n ELSE net.registry
       IN  InsertEndpoints_KeepInvalid([entries |-> entries, registry |-> registry],
                                       n, Tail(eps))
RECURSIVE InsertEndpoints_StopAtInvalid(_, _, _)
InsertEndpoints_StopAtInvalid(net, n, eps) ==
  IF eps = <<>> THEN net
  ELSE LET ep == Head(eps)
           entries == IF ep.HasCidr
                      THEN RangerInsert(net.entries, [name |-> n, network |-> ep.FromCidr])
                      ELSE net.entries
           registry == IF ep.FromRegistry # "" /\ ep.FromRegistry = ClusterID
                       THEN n ELSE net.registry
       IN  IF ep.HasCidr /\ ~ep.FromCidr.valid THEN net
           ELSE InsertEndpoints_StopAtInvalid([entries |-> entries, registry |-> registry],
                                              n, Tail(eps))
RECURSIVE InsertEndpoints(_, _, _)
InsertEndpoints(net, n, eps) ==
  IF eps = <<>> THEN net
  ELSE LET ep == Head(eps)
           entries == IF ep.HasCidr /\ ep.FromCidr.valid
                      THEN RangerInsert(net.entries, [name |-> n, network |-> ep.FromCidr])
                      ELSE net.entries
           registry == IF (~ep.HasCidr \/ ep.FromCidr.valid)
                          /\ ep.FromRegistry # "" /\ ep.FromRegistry = ClusterID
                       THEN n ELSE net.registry
       IN  InsertEndpoints([entries |-> entries, registry |-> registry], n, Tail(eps))

\* the networks in the order the map iteration yields them
RECURSIVE InsertNetworks(_, _, _)
InsertNetworks(net, meshNetworks, order) ==
  IF order = <<>> THEN net
  ELSE InsertNetworks(InsertEndpoints(net, Head(order), meshNetworks[Head(order)]),
                      meshNetworks, Tail(order))

Orders(S) == {o \in [1..Cardinality(S) -> S] : \A i, j \in 1..Cardinality(S) : i # j => o[i] # o[j]}

\* InitNetworkLookup: returns at once on an empty configuration, else
\* installs a new, empty ranger
InitNetworkLookupStart(meshNetworks) ==
    /\ initPc = "idle"
    /\ IF DOMAIN meshNetworks = {}
       THEN UNCHANGED netVars
       ELSE /\ ranger' = [set |-> TRUE, entries |-> {}]
            /\ initArg' = meshNetworks
            /\ initPc' = "loop"
            /\ UNCHANGED <<networkForRegistry, insertOrder>>
    /\ lastCall' = [api |-> "InitNetworkLookup",
                    networks |-> Cardinality(DOMAIN meshNetworks)]
    /\ UNCHANGED <<envVars, workerPc, cur, queue, delayed, storeVars, podCache,
                   mapVars, lockVars, outsideVars, emitted, done, rdPc, rdArg>>

InitNetworkLookupBegin ==
  \E meshNetworks \in MeshConfigs : InitNetworkLookupStart(meshNetworks)

\* InitNetworkLookup: the loop over the networks and their endpoints
InitNetworkLookupLoop ==
  \E order \in Orders(DOMAIN initArg) :
    /\ initPc = "loop"
    /\ LET net == InsertNetworks([entries |-> ranger.entries,
                                  registry |-> networkForRegistry], initArg, order)
       IN  /\ ranger' = [set |-> TRUE, entries |-> net.entries]
           /\ networkForRegistry' = net.registry
    /\ initPc' = "idle"
    /\ insertOrder' = order
    /\ UNCHANGED initArg
    /\ UNCHANGED <<envVars, workerPc, cur, queue, delayed, storeVars, podCache,
                   mapVars, lockVars, outsideVars, emitted, done, rdVars>>

----------------------------------------------------------------------------
\* Specifications

\* no wait command is running
NoWait ==
  /\ resultsChan = <<>>
  /\ errorChan = <<>>
  /\ ctxDone = FALSE
  /\ watchPc = "none"
  /\ cmdPc = "none"
  /\ cmdResult = ""
  /\ watchEvents = 0

InitCommon ==
  /\ synced = [i \in Informers |-> FALSE]
  /\ started = [i \in Informers |-> FALSE]
  /\ stopped = FALSE
  /\ runPc = "created"
  /\ workerPc = "notStarted"
  /\ cur = NoTask
  /\ queue = <<>>
  /\ delayed = {}
  /\ nextRV = 1
  /\ svcStore = [k \in {} |-> 0]
  /\ epStore = [k \in {} |-> 0]
  /\ podStore = {}
  /\ nodeStore = [k \in {} |-> 0]
  /\ podCache = [k \in {} |-> 0]
  /\ servicesMap = [k \in {} |-> 0]
  /\ externalNameSvcInstanceMap = [k \in {} |-> 0]
  /\ lockW = "none"
  /\ lockR = {}
  /\ ranger = [set |-> FALSE, entries |-> {}]
  /\ networkForRegistry = ""
  /\ headless \in BOOLEAN
  /\ Env = FALSE
  /\ emitted = <<>>
  /\ pushed = <<>>
  /\ done = <<>>
  /\ lastCb = [n |-> 0, otype |-> "", kind |-> "", old |-> 0, cur |-> 0,
               pushedTask |-> FALSE]
  /\ rdPc = [r \in Readers |-> "idle"]
  /\ rdArg = [r \in Readers |-> "foo"]
  /\ initPc = "idle"
  /\ initArg = MeshEmpty
  /\ insertOrder = <<>>
  /\ lastCall = NoCall

Init == InitCommon /\ budget = MaxEvents /\ NoWait

Watch ==
  \/ ServiceAdded
  \/ ServiceUpdated
  \/ ServiceDeleted
  \/ EndpointsAdded
  \/ EndpointsUpdated
  \/ EndpointsDeleted
  \/ PodEvent
  \/ InformerSynced

Lifecycle ==
  \/ Run
  \/ RunStartEndpoints
  \/ RunReturns
  \/ Stop

Worker ==
  \/ QueueRun
  \/ Dispatch
  \/ Retry
  \/ WorkerExits
  \/ SvcLock
  \/ SvcWriteServices
  \/ SvcWriteExternal
  \/ SvcEmit
  \/ EpHandler
  \/ PodHandler

Next == Watch \/ Lifecycle \/ Worker

Spec == Init /\ [][Next]_vars

\* The running controller with its read APIs and InitNetworkLookup called
\* from other threads.  It starts where Run has started the four informers,
\* all have synced, and the Service foo and its Endpoints were added and
\* their tasks processed.
LockTask1 ==
  [id |-> 1, otype |-> "Services", obj |-> SvcObj("foo", "ClusterIP", 1),
   event |-> "add", presync |-> FALSE]
LockTask2 ==
  [id |-> 2, otype |-> "Endpoints",
   obj |-> EpObj("foo", <<Subset(<<Addr(IP1, "Pod"), Addr(IP2, "")>>, <<>>)>>, 2),
   event |-> "add", presync |-> FALSE]

InitLock ==
  /\ synced = [i \in Informers |-> TRUE]
  /\ started = [i \in Informers |-> TRUE]
  /\ stopped = FALSE
  /\ runPc = "blocked"
  /\ workerPc = "idle"
  /\ cur = NoTask
  /\ queue = <<>>
  /\ delayed = {}
  /\ budget = MaxEventsLock
  /\ nextRV = 3
  /\ svcStore = Put([k \in {} |-> 0], KeyFunc("foo", Namespace), LockTask1.obj)
  /\ epStore = Put([k \in {} |-> 0], KeyFunc("foo", Namespace), LockTask2.obj)
  /\ podStore = {}
  /\ nodeStore = [k \in {} |-> 0]
  /\ podCache = [k \in {} |-> 0]
  /\ servicesMap =
       LET svcConv == ConvertService(LockTask1.obj, domainSuffix, ClusterID)
       IN  Put([k \in {} |-> 0], svcConv.Hostname, svcConv)
  /\ externalNameSvcInstanceMap = [k \in {} |-> 0]
  /\ lockW = "none"
  /\ lockR = {}
  /\ ranger = [set |-> FALSE, entries |-> {}]
  /\ networkForRegistry = ""
  /\ headless \in BOOLEAN
  /\ Env = FALSE
  /\ NoWait
  /\ emitted = <<SvcUpdateCall(LockTask1), ServiceCallback(LockTask1),
                 updateEDS(2, LockTask2.obj, "add")>>
  /\ pushed = <<LockTask1, LockTask2>>
  /\ done = <<1, 2>>
  /\ lastCb = [Callback("Endpoints", "add", LockTask2.obj, LockTask2.obj)
                 EXCEPT !.n = 2, !.pushedTask = TRUE]
  /\ rdPc = [r \in Readers |-> "idle"]
  /\ rdArg = [r \in Readers |-> "foo"]
  /\ initPc = "idle"
  /\ initArg = MeshEmpty
  /\ insertOrder = <<>>
  /\ lastCall = NoCall

LockWatch ==
  \/ ServiceAdded
  \/ ServiceUpdated
  \/ ServiceDeleted
  \/ EndpointsUpdated
  \/ EndpointsDeleted
  \/ PodEvent

LockWorker ==
  \/ Dispatch
  \/ SvcLock
  \/ SvcWriteServices
  \/ SvcWriteExternal
  \/ SvcEmit
  \/ EpHandler
  \/ PodHandler

LockReaders ==
  \/ ReadLock
  \/ ReadMap
  \/ ReadNetwork

NetworkLookup ==
  \/ InitNetworkLookupBegin
  \/ InitNetworkLookupLoop

LockNext == LockWatch \/ LockWorker \/ LockReaders \/ NetworkLookup

LockSpec == InitLock /\ [][LockNext]_vars

\* The start of the controller under the scheduling of the Go runtime: the
\* informers deliver the Add callbacks of their initial lists, a goroutine
\* that can run does run, and a timer that is set fires.
InitLive == InitCommon /\ budget = MaxEventsLive /\ NoWait

InitialList ==
  \/ ServiceAdded
  \/ EndpointsAdded
  \/ PodEvent
  \/ InformerSynced

WorkerThread ==
  \/ QueueRun
  \/ Dispatch
  \/ WorkerExits
  \/ SvcLock
  \/ SvcWriteServices
  \/ SvcWriteExternal
  \/ SvcEmit
  \/ EpHandler
  \/ PodHandler

LiveNext == InitialList \/ Lifecycle \/ WorkerThread \/ Retry

LiveSpec ==
  /\ InitLive
  /\ [][LiveNext]_vars
  /\ WF_vars(RunStartEndpoints)
  /\ WF_vars(WorkerThread)
  /\ WF_vars(Retry)

\* The network lookup on its own: the owner of the mesh networks calls
\* InitNetworkLookup, at start and again when the configuration changes,
\* and callers resolve the network of an address.
IP3 == <<10, 1, 9, 9>>
IP4 == <<100, 64, 0, 1>>
ProbeIPs == {IP1, IP2, IP3, IP4}

MeshOverlap ==
  [n \in {"netA", "netB"} |->
     IF n = "netA" THEN <<NetEp(Cidr(<<10, 1, 2, 0>>, 24), TRUE, "")>>
     ELSE <<NetEp(Cidr(<<10, 1, 0, 0>>, 16), TRUE, "")>>]
MeshSame ==
  [n \in {"netA", "netB"} |->
     IF n = "netA" THEN <<NetEp(Cidr(<<10, 1, 2, 0>>, 24), TRUE, "")>>
     ELSE <<NetEp(Cidr(<<10, 1, 2, 7>>, 24), TRUE, "")>>]
MeshTwoRegistries ==
  [n \in {"netA", "netB"} |-> <<NetEp(NoCidr, FALSE, ClusterID)>>]
MeshMixed ==
  [n \in {"netA", "netB"} |->
     IF n = "netA" THEN <<NetEp(Cidr(<<10, 1, 2, 0>>, 24), TRUE, "")>>
     ELSE <<NetEp(NoCidr, FALSE, ClusterID)>>]
MeshOther ==
  [n \in {"netA"} |->
     <<NetEp([valid |-> FALSE, ip |-> <<10, 1, 2, 0>>, bits |-> 24], TRUE, ""),
       NetEp(NoCidr, FALSE, "c2"),
       NetEp(Cidr(<<10, 1, 9, 0>>, 24), TRUE, "")>>]
MeshBroken ==
  [n \in {"netA", "netB"} |->
     IF n = "netA"
     THEN <<NetEp([valid |-> FALSE, ip |-> <<10, 1, 2, 0>>, bits |-> 24], TRUE, ""),
            NetEp(Cidr(<<10, 1, 9, 0>>, 24), TRUE, "")>>
     ELSE <<NetEp([valid |-> FALSE, ip |-> <<10, 1, 3, 0>>, bits |-> 24], TRUE, ""),
            NetEp(NoCidr, FALSE, ClusterID)>>]
NetConfigs ==
  MeshConfigs \cup {MeshOverlap, MeshSame, MeshTwoRegistries, MeshMixed, MeshOther,
                    MeshBroken}

NetInitBegin ==
  \E meshNetworks \in NetConfigs : InitNetworkLookupStart(meshNetworks)

\* a caller asks c.endpointNetwork for the network of an address
ResolveNetwork ==
  \E ip \in ProbeIPs :
    LET r == endpointNetworkOn([networkForRegistry |-> networkForRegistry,
                                ranger |-> ranger], ip)
    IN  /\ lastCall' = [api |-> "endpointNetwork", ip |-> ip,
                        network |-> r.network, lookup |-> r.lookup,
                        warned |-> r.warned]
        /\ UNCHANGED <<envVars, workerPc, cur, queue, delayed, storeVars, podCache,
                       mapVars, lockVars, netVars, outsideVars, emitted, done,
                       rdPc, rdArg>>

InitNet == InitCommon /\ budget = 0 /\ NoWait
NetNext == NetInitBegin \/ InitNetworkLookupLoop \/ ResolveNetwork
NetSpec == InitNet /\ [][NetNext]_vars

----------------------------------------------------------------------------
\* The read APIs on their own: the controller has handled what its
\* informers delivered (but for a Service still in the queue), and callers
\* ask it for localities and instances.

\* the Services of the cluster: foo selects the pods of app foo and has
\* the ports http:8080 to 9376 and grpc:9090 to the container port grpc-c
\* (fooOld is foo before the port grpc was added), bar is headless and
\* selects them too, ext is an ExternalName Service, man and far have no
\* selector and far is of another namespace
QueryServices ==
  LET Port(n, p, type, int, str) ==
        [Name |-> n, Port |-> p, Protocol |-> "TCP",
         TargetPort |-> [Type |-> type, IntVal |-> int, StrVal |-> str]]
      Svc(name, namespace, rv, type, ip, ext, hasSel, sel, ports) ==
        [Name |-> name, Namespace |-> namespace, ResourceVersion |-> rv,
         Type |-> type, ClusterIP |-> ip, ExternalName |-> ext,
         HasSelector |-> hasSel, Selector |-> sel, Ports |-> ports]
  IN  [foo |-> Svc("foo", Namespace, 1, "ClusterIP", "10.0.0.1", "", TRUE,
                   {<<"app", "foo">>},
                   <<Port("http", 8080, "Int", 9376, ""),
                     Port("grpc", 9090, "String", 0, "grpc-c")>>),
       fooOld |-> Svc("foo", Namespace, 0, "ClusterIP", "10.0.0.1", "", TRUE,
                      {<<"app", "foo">>},
                      <<Port("http", 8080, "Int", 9376, "")>>),
       bar |-> Svc("bar", Namespace, 1, "ClusterIP", ClusterIPNone, "", TRUE,
                   {<<"app", "foo">>},
                   <<Port("tcp", 9000, "Int", 9000, "")>>),
       ext |-> Svc("ext", Namespace, 1, "ExternalName", "", "ext.example.com", FALSE,
                   {}, <<Port("http", 80, "Int", 80, "")>>),
       man |-> Svc("man", Namespace, 1, "ClusterIP", ClusterIPNone, "", FALSE,
                   {}, <<Port("http", 80, "Int", 9376, "")>>),
       far |-> Svc("far", "other", 1, "ClusterIP", ClusterIPNone, "", FALSE,
                   {}, <<Port("http", 80, "Int", 9376, "")>>)]

\* the Endpoints objects the store may hold, by choice
QueryEndpoints ==
  LET Ep(name, namespace, ready, notReady, ports) ==
        [Name |-> name, Namespace |-> namespace, ResourceVersion |-> 2,
         Subsets |-> <<[Addresses |-> ready, NotReadyAddresses |-> notReady,
                        Ports |-> ports]>>]
  IN  [none |-> {},
       foo |-> {Ep("foo", Namespace, <<Addr(IP1, "Pod")>>, <<Addr(IP2, "Pod")>>,
                   <<EpPort("http", 9376)>>)},
       mixed |-> {Ep("foo", Namespace, <<Addr(IP1, "Pod"), Addr(IP2, "Pod")>>, <<>>,
                     <<EpPort("", 9000), EpPort("http", 9376)>>)},
       both |-> {Ep("foo", Namespace, <<Addr(IP1, "Pod")>>, <<>>,
                    <<EpPort("http", 9376)>>),
                 Ep("bar", Namespace, <<Addr(IP2, "Pod")>>, <<Addr(IP1, "Pod")>>,
                    <<EpPort("", 9000)>>)},
       cross |-> {Ep("man", Namespace, <<Addr(IP1, "Pod"), Addr(IP3, "")>>, <<>>,
                     <<EpPort("http", 9376)>>),
                  Ep("far", "other", <<Addr(IP3, "")>>, <<Addr(IP1, "Pod")>>,
                     <<EpPort("http", 9376)>>)}]

\* the pods: p1 runs on node n1, p2 on node n2 and declares its locality,
\* p0 runs on node n3 and has no label
QueryPods ==
  {[Name |-> "p1", Namespace |-> Namespace, IP |-> IP1, NodeName |-> "n1",
    Labels |-> {<<"app", "foo">>},
    Containers |-> <<<<[Name |-> "grpc-c", ContainerPort |-> 9000,
                        Protocol |-> "TCP"]>>>>],
   [Name |-> "p2", Namespace |-> Namespace, IP |-> IP2, NodeName |-> "n2",
    Labels |-> {<<"app", "foo">>, <<"istio-locality", "r9.z9">>},
    Containers |-> <<>>],
   [Name |-> "p0", Namespace |-> Namespace, IP |-> IP3, NodeName |-> "n3",
    Labels |-> {}, Containers |-> <<>>]}

\* the nodes: n1 with the beta labels, n2 with the zone label alone, n3
\* with no label of either kind
QueryNodes ==
  [n1 |-> [Name |-> "n1",
           Labels |-> {<<"failure-domain.beta.kubernetes.io/region", "r1">>,
                       <<"failure-domain.beta.kubernetes.io/zone", "z1">>,
                       <<"failure-domain.kubernetes.io/region", "r2">>}],
   n2 |-> [Name |-> "n2",
           Labels |-> {<<"failure-domain.kubernetes.io/zone", "z2">>}],
   n3 |-> [Name |-> "n3", Labels |-> {<<"kubernetes.io/hostname", "n3">>}]]

\* the state of a synced controller whose service store holds the
\* Services named in store, that handled those named in handled (a Service,
\* or the version of it that came before) and has the others in its queue,
\* with the endpoints eps, the pods, the nodes, and the network lookup
\* built from meshNetworks; the tasks it handled are not kept
InitQueryWith(store, handled, eps, pods, nodes, meshNetworks) ==
  LET net == InsertNetworks([entries |-> {}, registry |-> ""], meshNetworks,
                            CHOOSE o \in Orders(DOMAIN meshNetworks) : TRUE)
      conv(n) == ConvertService(QueryServices[n], domainSuffix, ClusterID)
      exts == {n \in handled :
                 ~ExternalNameServiceInstances(QueryServices[n], conv(n)).isNil}
      late == CHOOSE o \in Orders(store \ handled) : TRUE
      waiting == [i \in 1..Len(late) |->
                    [id |-> i, otype |-> "Services", presync |-> FALSE,
                     event |-> IF \E n \in handled :
                                    QueryServices[n].Name = QueryServices[late[i]].Name
                               THEN "update" ELSE "add",
                     obj |-> QueryServices[late[i]]]]
      key(n) == KeyFunc(QueryServices[n].Name, QueryServices[n].Namespace)
  IN  /\ synced = [i \in Informers |-> TRUE]
      /\ started = [i \in Informers |-> TRUE]
      /\ stopped = FALSE
      /\ runPc = "blocked"
      /\ workerPc = "idle"
      /\ cur = NoTask
      /\ queue = waiting
      /\ pushed = waiting
      /\ delayed = {}
      /\ budget = 0
      /\ nextRV = 3
      /\ lockW = "none"
      /\ lockR = {}
      /\ headless = FALSE
      /\ Env \in BOOLEAN
      /\ NoWait
      /\ emitted = <<>>
      /\ done = <<>>
      /\ lastCb = [n |-> 0, otype |-> "", kind |-> "", old |-> 0, cur |-> 0,
                   pushedTask |-> FALSE]
      /\ rdPc = [r \in Readers |-> "idle"]
      /\ rdArg = [r \in Readers |-> "foo"]
      /\ initPc = "idle"
      /\ insertOrder = <<>>
      /\ lastCall = NoCall
      /\ svcStore = [k \in {key(n) : n \in store} |->
                       QueryServices[CHOOSE n \in store : key(n) = k]]
      /\ servicesMap = [h \in {conv(n).Hostname : n \in handled} |->
                          conv(CHOOSE n \in handled : conv(n).Hostname = h)]
      /\ externalNameSvcInstanceMap =
           [h \in {conv(n).Hostname : n \in exts} |->
              LET n == CHOOSE m \in exts : conv(m).Hostname = h
              IN  ExternalNameServiceInstances(QueryServices[n], conv(n)).list]
      /\ epStore = [k \in {KeyFunc(e.Name, e.Namespace) : e \in eps} |->
                      CHOOSE e \in eps : KeyFunc(e.Name, e.Namespace) = k]
      /\ podStore = pods
      /\ podCache = [ip \in {q.IP : q \in pods} |-> CHOOSE q \in pods : q.IP = ip]
      /\ nodeStore = [n \in nodes |-> QueryNodes[n]]
      /\ ranger = [set |-> DOMAIN meshNetworks # {}, entries |-> net.entries]
      /\ networkForRegistry = net.registry
      /\ initArg = meshNetworks

\* foo may be handled, still in the queue, or handled in its old version
InitQuery ==
  \E store \in {{}, {"foo"}, {"foo", "bar"}, {"foo", "ext"}, {"foo", "man"},
                 {"man", "far"}},
     lag \in {"none", "add", "update"},
     e \in DOMAIN QueryEndpoints, pods \in SUBSET QueryPods,
     nodes \in {{"n1", "n2", "n3"}}, meshNetworks \in {MeshEmpty, MeshA} :
    /\ {q.Name : q \in pods} \in {{}, {"p1"}, {"p1", "p2"}, {"p0"}}
    /\ "foo" \notin store => lag = "none"
    /\ e = "cross" <=> "man" \in store
    /\ InitQueryWith(store,
                     CASE lag = "none" -> store
                       [] lag = "add" -> store \ {"foo"}
                       [] lag = "update" -> (store \ {"foo"}) \cup {"fooOld"},
                     QueryEndpoints[e], pods, nodes, meshNetworks)

\* a read API called on its own, by a caller that makes one call at a
\* time, leaves the controller as it is
QueryFrame ==
  /\ lastCall = NoCall
  /\ UNCHANGED <<envVars, workerPc, cur, queue, delayed, storeVars, podCache,
              mapVars, lockVars, netVars, outsideVars, emitted, done, rdPc, rdArg>>

\* the pods, model Services and proxies the callers ask about
ArgPods ==
  QueryPods \cup
  {[Name |-> "p3", Namespace |-> Namespace, IP |-> IP3, NodeName |-> n,
    Labels |-> IF l = "" THEN {<<"app", "foo">>}
               ELSE {<<"app", "foo">>, <<"istio-locality", l>>},
    Containers |-> <<>>] : n \in {"n1", "n2", "n3", "n9"}, l \in {"", "r8/z8"}}
ArgServices ==
  {[ConvertService(QueryServices[n], domainSuffix, ClusterID) EXCEPT !.Namespace = ns] :
     n \in DOMAIN QueryServices, ns \in {Namespace, "other"}}
ArgProxies ==
  {[ID |-> "sidecar", IPAddresses |-> ips, ConfigNamespace |-> Namespace,
    Locality |-> "", WorkloadLabels |-> md[1],
    Metadata |-> [Network |-> nw, ClusterID |-> md[2], PodPorts |-> md[3]]] :
     ips \in {<<>>, <<IP1>>, <<IP1, IP2>>, <<IP2, IP1>>, <<IP3>>},
     nw \in {"", "netA"},
     md \in {<<<<>>, ClusterID, <<>>>>,
             <<<<{<<"app", "foo">>}>>, ClusterID, <<>>>>,
             <<<<{<<"app", "foo">>}>>, ClusterID,
               <<[Name |-> "grpc-c", ContainerPort |-> 9000]>>>>,
             <<<<{<<"app", "foo">>}>>, "c2",
               <<[Name |-> "grpc-c", ContainerPort |-> 9000]>>>>}}

CallGetPodLocality ==
  \E pod \in ArgPods :
    /\ QueryFrame
    /\ lastCall' = [api |-> "GetPodLocality", pod |-> pod, panic |-> FALSE]
                   @@ GetPodLocality(pod)

CallInstancesByPort ==
  \E svc \in ArgServices, reqSvcPort \in {8080, 9000, 80, 7},
     labelsList \in {{}, {{<<"app", "foo">>}}} :
    /\ QueryFrame
    /\ lastCall' = [api |-> "InstancesByPort", svc |-> svc,
                    reqSvcPort |-> reqSvcPort, labelsList |-> labelsList,
                    panic |-> FALSE]
                   @@ InstancesByPort(svc, reqSvcPort, labelsList)

CallGetProxyServiceInstances ==
  \E proxy \in ArgProxies, svcOrder \in Orders(DOMAIN svcStore),
     epOrder \in Orders(DOMAIN epStore) :
    /\ QueryFrame
    /\ lastCall' = [api |-> "GetProxyServiceInstances", proxy |-> proxy,
                    panic |-> FALSE]
                   @@ GetProxyServiceInstances(proxy, svcOrder, epOrder)

CallGetProxyWorkloadLabels ==
  \E proxy \in ArgProxies :
    /\ QueryFrame
    /\ lastCall' = [api |-> "GetProxyWorkloadLabels", proxy |-> proxy]
                   @@ GetProxyWorkloadLabels(proxy)

\* the caller takes the result and is ready for its next call; a panic
\* ended the process
ReturnCall ==
  /\ lastCall # NoCall
  /\ ~lastCall.panic
  /\ lastCall' = NoCall
  /\ UNCHANGED <<envVars, workerPc, cur, queue, delayed, storeVars, podCache,
                 mapVars, lockVars, netVars, outsideVars, emitted, done, rdPc, rdArg>>

QueryNext ==
  \/ CallGetPodLocality
  \/ CallInstancesByPort
  \/ CallGetProxyServiceInstances
  \/ CallGetProxyWorkloadLabels
  \/ ReturnCall
QuerySpec == InitQuery /\ [][QueryNext]_vars

----------------------------------------------------------------------------
\* The handlers and the objects they are given: the synced controller with
\* one to three tasks in its queue, whose objects are of the type of their
\* handler, tombstones around such an object, tombstones around another
\* object, or objects of another type; the node n1 is known, and the pod
\* cache is empty until the task of the pod is handled.

HandlerTasks ==
  LET svc == SvcObj("foo", "ClusterIP", 1)
      ext == SvcObj("bar", "ExternalName", 1)
      ep  == EpObj("foo", <<Subset(<<Addr(IP1, "Pod"), Addr(IP2, "")>>, <<>>)>>, 2)
      pod == CHOOSE p \in Pods : TRUE
  IN  {[otype |-> "Services", obj |-> svc, event |-> "add"],
       [otype |-> "Services", obj |-> ext, event |-> "update"],
       [otype |-> "Services", obj |-> Tombstone(svc), event |-> "delete"],
       [otype |-> "Services", obj |-> Tombstone(pod), event |-> "delete"],
       [otype |-> "Services", obj |-> ep, event |-> "add"],
       [otype |-> "Endpoints", obj |-> ep, event |-> "add"],
       [otype |-> "Endpoints", obj |-> Tombstone(ep), event |-> "delete"],
       [otype |-> "Endpoints", obj |-> Tombstone(svc), event |-> "delete"],
       [otype |-> "Endpoints", obj |-> pod, event |-> "update"],
       [otype |-> "Pod", obj |-> pod, event |-> "add"]}

InitHandler ==
  \E t1 \in HandlerTasks, t2, t3 \in HandlerTasks \cup {NoTask} :
    LET tasks == <<[id |-> 1, presync |-> FALSE] @@ t1>>
                   \o (IF t2 = NoTask THEN <<>>
                       ELSE <<[id |-> 2, presync |-> FALSE] @@ t2>>
                              \o (IF t3 = NoTask THEN <<>>
                                  ELSE <<[id |-> 3, presync |-> FALSE] @@ t3>>))
    IN
    /\ t2 = NoTask => t3 = NoTask
    /\ synced = [i \in Informers |-> TRUE]
    /\ started = [i \in Informers |-> TRUE]
    /\ stopped = FALSE
    /\ runPc = "blocked"
    /\ workerPc = "idle"
    /\ cur = NoTask
    /\ queue = tasks
    /\ delayed = {}
    /\ budget = 0
    /\ nextRV = 3
    /\ svcStore = [k \in {} |-> 0]
    /\ epStore = [k \in {} |-> 0]
    /\ podStore = {}
    /\ nodeStore = [k \in {"n1"} |-> QueryNodes[k]]
    /\ podCache = [k \in {} |-> 0]
    /\ servicesMap = [k \in {} |-> 0]
    /\ externalNameSvcInstanceMap = [k \in {} |-> 0]
    /\ lockW = "none"
    /\ lockR = {}
    /\ ranger = [set |-> FALSE, entries |-> {}]
    /\ networkForRegistry = ""
    /\ headless \in BOOLEAN
    /\ Env \in BOOLEAN
    /\ NoWait
    /\ emitted = <<>>
    /\ pushed = tasks
    /\ done = <<>>
    /\ lastCb = [n |-> 0, otype |-> "", kind |-> "", old |-> 0, cur |-> 0,
                 pushedTask |-> FALSE]
    /\ rdPc = [r \in Readers |-> "idle"]
    /\ rdArg = [r \in Readers |-> "foo"]
    /\ initPc = "idle"
    /\ initArg = MeshEmpty
    /\ insertOrder = <<>>
    /\ lastCall = NoCall

HandlerNext ==
  \/ Dispatch
  \/ SvcTypeAssert
  \/ SvcLock
  \/ SvcWriteServices
  \/ SvcWriteExternal
  \/ SvcEmit
  \/ EpTypeAssert
  \/ EpHandler
  \/ PodHandler
HandlerSpec == InitHandler /\ [][HandlerNext]_vars

----------------------------------------------------------------------------
\* The pilot agent's reading of the Envoy stats page (GetUpdateStatusStats)

statCdsRejected == "cluster_manager.cds.update_success"
statsCdsSuccess == "cluster_manager.cds.update_rejected"
statLdsRejected == "listener_manager.lds.update_rejected"
statsLdsSuccess == "listener_manager.lds.update_success"

\* strings.HasPrefix
HasPrefix(str, prefix) ==
  /\ Len(str) >= Len(prefix)
  /\ SubSeq(str, 1, Len(prefix)) = prefix

\* the position of the first sep in str, 0 when there is none
RECURSIVE IndexFrom(_, _, _)
IndexFrom(str, sep, i) ==
  IF i > Len(str) THEN 0
  ELSE IF SubSeq(str, i, i) = sep THEN i
  ELSE IndexFrom(str, sep, i + 1)

\* strings.Split on a separator of one character
RECURSIVE Split(_, _)
Split(str, sep) ==
  LET i == IndexFrom(str, sep, 1)
  IN  IF i = 0 THEN <<str>>
      ELSE <<SubSeq(str, 1, i - 1)>> \o Split(SubSeq(str, i + 1, Len(str)), sep)

\* strings.TrimSpace
WhiteSpace == {" ", "\n", "\t", "\r"}
RECURSIVE TrimSpace(_)
TrimSpace(str) ==
  IF str = "" THEN ""
  ELSE IF SubSeq(str, 1, 1) \in WhiteSpace THEN TrimSpace(SubSeq(str, 2, Len(str)))
  ELSE IF SubSeq(str, Len(str), Len(str)) \in WhiteSpace
       THEN TrimSpace(SubSeq(str, 1, Len(str) - 1))
  ELSE str

\* strconv.ParseUint(str, 10, 64) of a number of at most nine digits
Digits == <<"0", "1", "2", "3", "4", "5", "6", "7", "8", "9">>
IsDigit(ch) == \E d \in 1..10 : Digits[d] = ch
DigitValue(ch) == (CHOOSE d \in 1..10 : Digits[d] = ch) - 1
RECURSIVE ParseDigits(_, _)
ParseDigits(str, acc) ==
  IF str = "" THEN [val |-> acc, err |-> FALSE]
  ELSE IF ~IsDigit(SubSeq(str, 1, 1)) THEN [val |-> 0, err |-> TRUE]
  ELSE ParseDigits(SubSeq(str, 2, Len(str)), 10 * acc + DigitValue(SubSeq(str, 1, 1)))
ParseUint(str) ==
  IF str = "" \/ Len(str) > 9 THEN [val |-> 0, err |-> TRUE]
  ELSE ParseDigits(str, 0)

\* stat.processLine: the stat after the line, and whether it failed
processLine_LastWins(st, line) ==
  IF HasPrefix(line, st.name)
  THEN LET parts == Split(line, ":")
           found == [st EXCEPT !.found = TRUE]
       IN  IF Len(parts) # 2 THEN [stat |-> found, err |-> TRUE]
           ELSE LET n == ParseUint(TrimSpace(parts[2]))
                IN  IF n.err THEN [stat |-> found, err |-> TRUE]
                    ELSE [stat |-> [found EXCEPT !.value = n.val], err |-> FALSE]
  ELSE [stat |-> st, err |-> FALSE]
processLine(st, line) ==
  IF ~st.found /\ HasPrefix(line, st.name)
  THEN LET parts == Split(line, ":")
           found == [st EXCEPT !.found = TRUE]
       IN  IF Len(parts) # 2 THEN [stat |-> found, err |-> TRUE]
           ELSE LET n == ParseUint(TrimSpace(parts[2]))
                IN  IF n.err THEN [stat |-> found, err |-> TRUE]
                    ELSE [stat |-> [found EXCEPT !.value = n.val], err |-> FALSE]
  ELSE [stat |-> st, err |-> FALSE]

\* bytes.Buffer.ReadString('\n'), until the buffer is empty
RECURSIVE ReadLines(_)
ReadLines(input) ==
  IF input = "" THEN <<>>
  ELSE LET i == IndexFrom(input, "\n", 1)
       IN  IF i = 0 THEN <<input>>
           ELSE <<SubSeq(input, 1, i)>> \o ReadLines(SubSeq(input, i + 1, Len(input)))

\* parseStats: every line is given to every stat, the errors are collected,
\* and a stat that no line matched is set to 0
RECURSIVE parseLines(_, _, _)
parseLines(lines, stats, err) ==
  IF lines = <<>> THEN [stats |-> stats, err |-> err]
  ELSE LET r == [i \in 1..Len(stats) |-> processLine(stats[i], Head(lines))]
       IN  parseLines(Tail(lines), [i \in 1..Len(stats) |-> r[i].stat],
                      err \/ \E i \in 1..Len(stats) : r[i].err)
parseStats(input, stats) ==
  LET r == parseLines(ReadLines(input), stats, FALSE)
  IN  [stats |-> [i \in 1..Len(stats) |->
                    IF r.stats[i].found THEN r.stats[i]
                    ELSE [r.stats[i] EXCEPT !.value = 0]],
       err |-> r.err]

\* GetUpdateStatusStats on the page doHTTPGet returned: the Stats, or nil
\* and the error
GetUpdateStatusStats(page) ==
  LET allStats == <<[name |-> statsCdsSuccess, value |-> 0, found |-> FALSE],
                    [name |-> statCdsRejected, value |-> 0, found |-> FALSE],
                    [name |-> statsLdsSuccess, value |-> 0, found |-> FALSE],
                    [name |-> statLdsRejected, value |-> 0, found |-> FALSE]>>
      r == parseStats(page, allStats)
  IN  IF r.err THEN [isNil |-> TRUE, err |-> TRUE]
      ELSE [isNil |-> FALSE, err |-> FALSE,
            CDSUpdatesSuccess   |-> r.stats[1].value,
            CDSUpdatesRejection |-> r.stats[2].value,
            LDSUpdatesSuccess   |-> r.stats[3].value,
            LDSUpdatesRejection |-> r.stats[4].value]

\* lines of a stats page: the four update stats, a second value for one of
\* them, a line without separator, a value that is no number, another stat
StatLines ==
  {"cluster_manager.cds.update_success: 5\n",
   "cluster_manager.cds.update_rejected: 2\n",
   "listener_manager.lds.update_success: 7\n",
   "listener_manager.lds.update_rejected: 1\n",
   "cluster_manager.cds.update_success: 9\n",
   "listener_manager.lds.update_success 7\n",
   "cluster_manager.cds.update_rejected: x\n",
   "server.state: 0\n"}
RECURSIVE Concat(_)
Concat(lines) == IF lines = <<>> THEN "" ELSE Head(lines) \o Concat(Tail(lines))
StatPages ==
  {Concat(ls) : ls \in UNION {[1..n -> StatLines] : n \in 0..MaxLines}}

\* a caller polls the update stats
PollUpdateStats ==
  \E page \in StatPages :
    /\ lastCall = NoCall
    /\ lastCall' = [api |-> "GetUpdateStatusStats", panic |-> FALSE,
                    page |-> page, stats |-> GetUpdateStatusStats(page)]
    /\ UNCHANGED <<envVars, workerPc, cur, queue, delayed, storeVars, podCache,
                   mapVars, lockVars, netVars, outsideVars, emitted, done,
                   rdPc, rdArg>>

InitStats == InitCommon /\ budget = 0 /\ lastCall = NoCall /\ NoWait
StatsNext == PollUpdateStats \/ ReturnCall
StatsSpec == InitStats /\ [][StatsNext]_vars

----------------------------------------------------------------------------
\* The wait command of istioctl: the goroutine of getAndWatchResource, run
\* by watcher.Go, and the command that reads the watcher

\* everything of the controller, which the wait command has no part in
controllerFrame ==
  UNCHANGED <<envVars, workerPc, cur, queue, delayed, storeVars, podCache,
              mapVars, lockVars, netVars, flagVars, emitted, done, rdVars>>

\* getAndWatchResource: clientGetter and r.Get, which may fail
WatchGet ==
  /\ watchPc = "get"
  /\ \E ok \in BOOLEAN : watchPc' = IF ok THEN "sendFirst" ELSE "sendErr"
  /\ UNCHANGED <<resultsChan, errorChan, ctxDone, cmdPc, cmdResult, watchEvents>>
  /\ controllerFrame

\* getAndWatchResource: result <- localResourceVersion and
\* result <- newVersion, which wait for the slot of the channel
WatchSend_Dropping ==
  /\ watchPc \in {"sendFirst", "sendNew"}
  /\ resultsChan' = IF Len(resultsChan) < 1 THEN Append(resultsChan, "version")
                    ELSE resultsChan
  /\ watchPc' = IF watchPc = "sendFirst" THEN "watch" ELSE "checkCtx"
  /\ UNCHANGED <<errorChan, ctxDone, cmdPc, cmdResult, watchEvents>>
  /\ controllerFrame
WatchSend ==
  /\ watchPc \in {"sendFirst", "sendNew"}
  /\ Len(resultsChan) < 1
  /\ resultsChan' = Append(resultsChan, "version")
  /\ watchPc' = IF watchPc = "sendFirst" THEN "watch" ELSE "checkCtx"
  /\ UNCHANGED <<errorChan, ctxDone, cmdPc, cmdResult, watchEvents>>
  /\ controllerFrame

\* getAndWatchResource: r.Watch, which may fail
WatchStart ==
  /\ watchPc = "watch"
  /\ \E ok \in BOOLEAN : watchPc' = IF ok THEN "range" ELSE "sendErr"
  /\ UNCHANGED <<resultsChan, errorChan, ctxDone, cmdPc, cmdResult, watchEvents>>
  /\ controllerFrame

\* getAndWatchResource: the range over watch.ResultChan() receives an
\* event: of the named resource, of another one, or one whose name or
\* version cannot be read
WatchEvent ==
  /\ watchPc = "range"
  /\ watchEvents > 0
  /\ watchEvents' = watchEvents - 1
  /\ \E kind \in {"named", "other", "unreadable"} :
       watchPc' = CASE kind = "named" -> "sendNew"
                    [] kind = "other" -> "checkCtx"
                    [] OTHER -> "sendErr"
  /\ UNCHANGED <<resultsChan, errorChan, ctxDone, cmdPc, cmdResult>>
  /\ controllerFrame

\* getAndWatchResource: the server closes the watch, the range ends and
\* the function returns nil
WatchClosed ==
  /\ watchPc = "range"
  /\ watchPc' = "done"
  /\ UNCHANGED <<resultsChan, errorChan, ctxDone, cmdPc, cmdResult, watchEvents>>
  /\ controllerFrame

\* getAndWatchResource: the select on ictx.Done() after an event
WatchCheckCtx ==
  /\ watchPc = "checkCtx"
  /\ watchPc' = IF ctxDone THEN "sendErr" ELSE "range"
  /\ UNCHANGED <<resultsChan, errorChan, ctxDone, cmdPc, cmdResult, watchEvents>>
  /\ controllerFrame

\* watcher.Go: w.errorChan <- err, and the goroutine ends
WatchSendErr ==
  /\ watchPc = "sendErr"
  /\ Len(errorChan) < 1
  /\ errorChan' = Append(errorChan, "err")
  /\ watchPc' = "done"
  /\ UNCHANGED <<resultsChan, ctxDone, cmdPc, cmdResult, watchEvents>>
  /\ controllerFrame

\* the wait command returns: its deferred cancel() ends the context
CmdReturn(result) ==
  /\ cmdPc' = "returned"
  /\ cmdResult' = result
  /\ ctxDone' = TRUE

\* watcher.BlockingRead for the first version
BlockingRead ==
  /\ cmdPc = "first"
  /\ \/ /\ errorChan # <<>>
        /\ errorChan' = Tail(errorChan)
        /\ CmdReturn("watchError")
        /\ UNCHANGED resultsChan
     \/ /\ resultsChan # <<>>
        /\ resultsChan' = Tail(resultsChan)
        /\ cmdPc' = "poll"
        /\ UNCHANGED <<errorChan, ctxDone, cmdResult>>
     \/ /\ ctxDone
        /\ CmdReturn("contextError")
        /\ UNCHANGED <<resultsChan, errorChan>>
  /\ UNCHANGED <<watchPc, watchEvents>>
  /\ controllerFrame

\* the wait command: poll fails, finds the resource on enough sidecars, or
\* not yet
CmdPoll ==
  /\ cmdPc = "poll"
  /\ \E outcome \in {"pollError", "done", "notYet"} :
       IF outcome = "notYet"
       THEN cmdPc' = "select" /\ UNCHANGED <<ctxDone, cmdResult>>
       ELSE CmdReturn(outcome)
  /\ UNCHANGED <<resultsChan, errorChan, watchPc, watchEvents>>
  /\ controllerFrame

\* the wait command: the select on the results, the ticker, the errors and
\* the end of the context
CmdSelect ==
  /\ cmdPc = "select"
  /\ \/ /\ resultsChan # <<>>
        /\ resultsChan' = Tail(resultsChan)
        /\ cmdPc' = "poll"
        /\ UNCHANGED <<errorChan, ctxDone, cmdResult>>
     \/ /\ cmdPc' = "poll"
        /\ UNCHANGED <<resultsChan, errorChan, ctxDone, cmdResult>>
     \/ /\ errorChan # <<>>
        /\ errorChan' = Tail(errorChan)
        /\ CmdReturn("watchError")
        /\ UNCHANGED resultsChan
     \/ /\ ctxDone
        /\ CmdReturn("timeout")
        /\ UNCHANGED <<resultsChan, errorChan>>
  /\ UNCHANGED <<watchPc, watchEvents>>
  /\ controllerFrame

\* context.WithTimeout: the timeout of the command expires
Timeout ==
  /\ cmdPc \in {"first", "poll", "select"}
  /\ ~ctxDone
  /\ ctxDone' = TRUE
  /\ UNCHANGED <<resultsChan, errorChan, watchPc, cmdPc, cmdResult, watchEvents>>
  /\ controllerFrame

\* the wait command has made its watcher and started the goroutine
InitWait ==
  /\ InitCommon /\ budget = 0
  /\ resultsChan = <<>>
  /\ errorChan = <<>>
  /\ ctxDone = FALSE
  /\ watchPc = "get"
  /\ cmdPc = "first"
  /\ cmdResult = ""
  /\ watchEvents = MaxWatchEvents
WaitNext ==
  \/ WatchGet \/ WatchSend \/ WatchStart \/ WatchEvent \/ WatchClosed
  \/ WatchCheckCtx \/ WatchSendErr
  \/ BlockingRead \/ CmdPoll \/ CmdSelect \/ Timeout
WaitSpec == InitWait /\ [][WaitNext]_vars

\* the goroutine and the command take the steps they can take, the timeout
\* expires, and the watch delivers its events and is closed in the end
WaitLiveSpec ==
  /\ WaitSpec
  /\ WF_vars(WatchGet) /\ WF_vars(WatchSend) /\ WF_vars(WatchStart)
  /\ WF_vars(WatchCheckCtx) /\ WF_vars(WatchSendErr)
  /\ WF_vars(WatchEvent) /\ WF_vars(WatchClosed)
  /\ WF_vars(BlockingRead) /\ WF_vars(CmdPoll) /\ WF_vars(CmdSelect)
  /\ WF_vars(Timeout)

----------------------------------------------------------------------------
\* Properties

AllFourSynced == \A i \in Informers : synced[i]
HandlerPositions ==
  {"svcLock", "svcWriteServices", "svcWriteExternal", "svcEmit", "epHandler",
   "podHandler"}
DoneIds == {done[i] : i \in 1..Len(done)}
Calls(name, id) == {i \in 1..Len(emitted) : emitted[i].call = name /\ emitted[i].id = id}

\* C1: while one of the four informers has not synced, every invocation of
\* the chain fails at notify: the worker never stands in a later handler,
\* and the step that takes the task off the queue puts it aside for its
\* retry and changes neither map, nor the pod cache, nor the calls made on
\* the XDSUpdater.
C1_NotifyFailsBeforeSync ==
  /\ [](workerPc \in HandlerPositions => AllFourSynced)
  /\ [][(~AllFourSynced /\ Len(queue') < Len(queue)) =>
          /\ Head(queue) \in delayed'
          /\ workerPc' = "idle"
          /\ UNCHANGED <<servicesMap, externalNameSvcInstanceMap, podCache,
                         emitted, done>>]_vars

\* a task failed at notify and waits for its retry; nothing was emitted
C1_Witness ==
  /\ ~AllFourSynced
  /\ workerPc = "idle"
  /\ delayed # {}
  /\ emitted = <<>>
  /\ DOMAIN servicesMap = {}

\* where a pushed task is: waiting, put aside for its retry, being handled,
\* or completed
Located(id) ==
  \/ \E i \in 1..Len(queue) : queue[i].id = id
  \/ \E t \in delayed : t.id = id
  \/ cur.id = id
  \/ id \in DoneIds

\* C2: a pushed task is never dropped (a task that failed at notify is put
\* aside and pushed again), and once the four informers have synced every
\* task pushed so far is eventually run to completion, unless the
\* controller is stopped.
C2_RetriedUntilRun ==
  /\ [](\A id \in 1..Len(pushed) : Located(id))
  /\ \A id \in 1..MaxEventsLive :
       (Len(pushed) >= id /\ AllFourSynced) ~> (id \in DoneIds \/ stopped)

\* a task pushed before the sync is complete was run to completion
C2_Witness ==
  /\ ~stopped
  /\ \E id \in DoneIds : pushed[id].presync

\* C3: the chains complete in the order the tasks were pushed, one task at
\* a time, and the calls on the XDSUpdater are made in that order.
C3_DispatchInPushOrder ==
  /\ \A i, j \in 1..Len(done) : i < j => done[i] < done[j]
  /\ \A i, j \in 1..Len(emitted) : i < j => emitted[i].id <= emitted[j].id
  /\ cur # NoTask => \A i \in 1..Len(done) : done[i] < cur.id
  /\ cur # NoTask => \A i \in 1..Len(emitted) : emitted[i].id <= cur.id

\* two events of one Service were handled, the earlier first
C3_Witness ==
  /\ Len(done) >= 2
  /\ pushed[done[1]].otype = "Services"
  /\ pushed[done[2]].otype = "Services"
  /\ pushed[done[1]].obj.Name = pushed[done[2]].obj.Name
  /\ Len(emitted) = 4

WasHeadless(name, namespace) ==
  \E i \in 1..Len(pushed) :
    /\ pushed[i].otype = "Services"
    /\ pushed[i].event # "delete"
    /\ pushed[i].obj.Name = name /\ pushed[i].obj.Namespace = namespace
    /\ pushed[i].obj.ClusterIP = ClusterIPNone

SameReady(a, b) ==
  /\ Len(a.Subsets) = Len(b.Subsets)
  /\ \A i \in 1..Len(a.Subsets) :
       /\ a.Subsets[i].Addresses = b.Subsets[i].Addresses
       /\ a.Subsets[i].Ports = b.Subsets[i].Ports

\* C5: the update callback of two Endpoints with the same ready addresses
\* and ports pushes no task and changes neither the queue, nor a map, nor
\* the calls made on the XDSUpdater.
C5_SameEndpointsElided ==
  [][(/\ lastCb'.n # lastCb.n
      /\ lastCb'.otype = "Endpoints"
      /\ lastCb'.kind = "update"
      /\ SameReady(lastCb'.old, lastCb'.cur)) =>
        /\ ~lastCb'.pushedTask
        /\ UNCHANGED <<queue, delayed, pushed, servicesMap,
                       externalNameSvcInstanceMap, podCache, emitted, done>>]_vars

\* an update that changed the not-ready addresses and the resourceVersion
\* alone was delivered and pushed nothing
C5_Witness ==
  /\ lastCb.otype = "Endpoints"
  /\ lastCb.kind = "update"
  /\ lastCb.old # lastCb.cur
  /\ lastCb.old.Subsets # lastCb.cur.Subsets
  /\ SameReady(lastCb.old, lastCb.cur)
  /\ ~lastCb.pushedTask

HostnameOf(obj) == ServiceHostname(obj.Name, obj.Namespace, domainSuffix)
IsServiceDelete(t) == t.otype = "Services" /\ t.event = "delete"

\* C6: every handled Service delete has its SvcUpdate call with the delete
\* event, and when the worker has just completed a Service delete the
\* hostname is in neither map.
C6_DeleteRemovesAndNotifies ==
  /\ \A id \in DoneIds :
       IsServiceDelete(pushed[id]) =>
         \E i \in Calls("SvcUpdate", id) :
           /\ emitted[i].event = "delete"
           /\ emitted[i].name = pushed[id].obj.Name
           /\ emitted[i].namespace = pushed[id].obj.Namespace
  /\ (cur = NoTask /\ done # <<>> /\ IsServiceDelete(pushed[Last(done)])) =>
       /\ HostnameOf(pushed[Last(done)].obj) \notin DOMAIN servicesMap
       /\ HostnameOf(pushed[Last(done)].obj) \notin DOMAIN externalNameSvcInstanceMap

\* an ExternalName Service was added, then deleted, and both tasks handled
C6_Witness ==
  /\ cur = NoTask
  /\ Len(done) = 2
  /\ pushed[done[1]].otype = "Services"
  /\ pushed[done[1]].obj.Type = "ExternalName"
  /\ IsServiceDelete(pushed[done[2]])
  /\ pushed[done[1]].obj.Name = pushed[done[2]].obj.Name

\* the handled Service tasks of a hostname, by their rank in done
ServiceTasksOf(h) ==
  {i \in 1..Len(done) :
     pushed[done[i]].otype = "Services" /\ HostnameOf(pushed[done[i]].obj) = h}
LastServiceTaskOf(h) ==
  pushed[done[CHOOSE i \in ServiceTasksOf(h) : \A j \in ServiceTasksOf(h) : j <= i]]

\* C7: between two tasks, the entries of a hostname in the two maps are
\* those the last handled event of that hostname alone gives on empty
\* maps: none after a delete or with no event; after an add or update the
\* converted Service, and its instances exactly when it is an ExternalName
\* Service.
C7_LastEventWins ==
  cur = NoTask =>
    \A h \in Hostnames :
      IF ServiceTasksOf(h) = {} \/ LastServiceTaskOf(h).event = "delete"
      THEN h \notin DOMAIN servicesMap /\ h \notin DOMAIN externalNameSvcInstanceMap
      ELSE LET obj == LastServiceTaskOf(h).obj
               svc == ConvertService(obj, domainSuffix, ClusterID)
           IN  /\ h \in DOMAIN servicesMap
               /\ servicesMap[h] = svc
               /\ IF obj.Type = "ExternalName"
                  THEN /\ h \in DOMAIN externalNameSvcInstanceMap
                       /\ externalNameSvcInstanceMap[h] =
                            ExternalNameServiceInstances(obj, svc).list
                  ELSE h \notin DOMAIN externalNameSvcInstanceMap

\* an ExternalName Service was replaced by a ClusterIP Service
C7_Witness ==
  /\ cur = NoTask
  /\ \E h \in Hostnames :
       /\ Cardinality(ServiceTasksOf(h)) = 2
       /\ LastServiceTaskOf(h).event = "update"
       /\ LastServiceTaskOf(h).obj.Type = "ClusterIP"
       /\ \E i \in ServiceTasksOf(h) : pushed[done[i]].obj.Type = "ExternalName"

\* C8: while the handler of a Service task stands between its write of
\* servicesMap and its write of externalNameSvcInstanceMap it holds the
\* lock exclusively and no reader holds it.
C8_MutationUnderOneLock ==
  workerPc \in {"svcWriteServices", "svcWriteExternal"} =>
    lockW = "worker" /\ lockR = {}

\* the handler has written servicesMap for an ExternalName Service and not
\* yet externalNameSvcInstanceMap, while a reader is inside InstancesByPort
C8_Witness ==
  /\ workerPc = "svcWriteExternal"
  /\ cur.obj.Type = "ExternalName"
  /\ HostnameOf(cur.obj) \in DOMAIN servicesMap
  /\ HostnameOf(cur.obj) \notin DOMAIN externalNameSvcInstanceMap
  /\ \E r \in Readers : rdPc[r] = "endpointNetwork"

\* the threads standing at a read, and at a write, of a field the lock
\* guards
ReadsNetwork(ep) ==
  \E i \in 1..Len(ep.Subsets) : ep.Subsets[i].Addresses # <<>>
AtRead ==
  {r \in Readers : rdPc[r] \in ReadAPIs \cup {"endpointNetwork"}}
    \cup (IF /\ workerPc = "epHandler" /\ ~IsHeadless(cur.obj)
             /\ cur.event # "delete" /\ ReadsNetwork(cur.obj)
          THEN {"worker"} ELSE {})
AtWrite ==
  (IF workerPc \in {"svcWriteServices", "svcWriteExternal"} THEN {"worker"} ELSE {})
    \cup (IF initPc = "loop" THEN {"init"} ELSE {})

\* C9 as stated: a thread standing at a read of the guarded state holds the
\* lock, a thread standing at a write holds it exclusively, and no thread
\* reads the network indices while another writes them.
C9_EveryAccessLocked ==
  /\ \A t \in AtRead : Held(t) # "none"
  /\ \A t \in AtWrite : Held(t) = "W"
  /\ ~(initPc = "loop" /\ \E r \in Readers : rdPc[r] = "endpointNetwork")

\* the ready addresses updateEDS passes over: no pod in the cache and a
\* TargetRef of kind Pod
Skipped(ea) == ea.IP \notin DOMAIN podCache /\ ea.TargetRef = "Pod"

\* the endpoints, by address and port, of the ready subsets of an Endpoints
ReadyTriples(ep, all) ==
  {<<i, j, k>> \in (1..Len(ep.Subsets)) \X (1..2) \X (1..2) :
     /\ j <= Len(ep.Subsets[i].Addresses)
     /\ k <= Len(ep.Subsets[i].Ports)
     /\ all \/ ~Skipped(ep.Subsets[i].Addresses[j])}
ReadyEndpoints(ep, all) ==
  {[Address |-> ep.Subsets[x[1]].Addresses[x[2]].IP,
    EndpointPort |-> ep.Subsets[x[1]].Ports[x[3]].Port,
    ServicePortName |-> ep.Subsets[x[1]].Ports[x[3]].Name] : x \in ReadyTriples(ep, all)}
Emitted(call) ==
  {[Address |-> call.endpoints[i].Address,
    EndpointPort |-> call.endpoints[i].EndpointPort,
    ServicePortName |-> call.endpoints[i].ServicePortName] : i \in 1..Len(call.endpoints)}

\* C10 as stated: every EDSUpdate of an add or update carries one endpoint
\* per ready address and port of the object of its task, and every
\* EDSUpdate of a delete carries none.
C10_CompleteReadySet ==
  \A i \in 1..Len(emitted) :
    emitted[i].call = "EDSUpdate" =>
      LET t == pushed[emitted[i].id]
      IN  IF t.event = "delete" THEN emitted[i].endpoints = <<>>
          ELSE /\ Emitted(emitted[i]) = ReadyEndpoints(t.obj, TRUE)
               /\ Len(emitted[i].endpoints) = Cardinality(ReadyTriples(t.obj, TRUE))

\* What updateEDS does hand over, the weaker form of C10: the EDSUpdate of
\* an add or update carries one endpoint per
\* port for each ready address of the object of its task that has a pod in
\* the cache or whose TargetRef is not a Pod, and nothing else; the
\* EDSUpdate of a delete carries none.
C10_ReadySetButPodless ==
  [][(Len(emitted') > Len(emitted) /\ Last(emitted').call = "EDSUpdate") =>
       /\ Last(emitted').id = cur.id
       /\ Last(emitted').hostname = HostnameOf(cur.obj)
       /\ IF cur.event = "delete" THEN Last(emitted').endpoints = <<>>
          ELSE /\ Emitted(Last(emitted')) = ReadyEndpoints(cur.obj, FALSE)
               /\ Len(Last(emitted').endpoints)
                    = Cardinality(ReadyTriples(cur.obj, FALSE))]_vars

\* two EDSUpdate calls were made for one hostname: the first left out the
\* ready address whose pod was not cached, the second carries fewer
\* endpoints than an earlier one
C10_Witness ==
  \E i, j \in 1..Len(emitted) :
    /\ i < j
    /\ emitted[i].call = "EDSUpdate" /\ emitted[j].call = "EDSUpdate"
    /\ emitted[i].hostname = emitted[j].hostname
    /\ Len(emitted[i].endpoints) = 1
    /\ Cardinality(ReadyTriples(pushed[emitted[i].id].obj, TRUE)) = 2
    /\ emitted[j].endpoints = <<>>

\* a call of endpointNetwork has just returned
Resolved == lastCall' # lastCall /\ lastCall'.api = "endpointNetwork"

\* C11: a call of endpointNetwork made while networkForRegistry is set
\* returns networkForRegistry, for any address and any ranges in the ranger,
\* and does not ask the ranger.
C11_OverrideWins ==
  [][(Resolved /\ networkForRegistry # "") =>
       /\ lastCall'.network = networkForRegistry
       /\ ~lastCall'.lookup]_vars

\* an address inside the range of netA was resolved to the registry's
\* network netB
C11_Witness ==
  /\ lastCall.api = "endpointNetwork"
  /\ initArg = MeshMixed
  /\ initPc = "idle"
  /\ networkForRegistry = "netB"
  /\ lastCall.ip = IP1
  /\ lastCall.network = "netB"
  /\ \E e \in ranger.entries : e.name = "netA" /\ Contains(e.network, IP1)

\* the networks of a configuration with a well-formed range containing ip
NetworksContaining(meshNetworks, ip) ==
  {n \in DOMAIN meshNetworks :
     \E i \in 1..Len(meshNetworks[n]) :
       /\ meshNetworks[n][i].HasCidr
       /\ meshNetworks[n][i].FromCidr.valid
       /\ Contains(meshNetworks[n][i].FromCidr, ip)}

\* C12: a call of endpointNetwork made while networkForRegistry is empty
\* and no InitNetworkLookup is under way returns "" when the lookup was
\* never built or no range of the configuration it was built from contains
\* the address, and else the name of a network with such a range.
C12_CidrLookup ==
  [][(Resolved /\ networkForRegistry = "" /\ initPc = "idle") =>
       IF ~ranger.set \/ NetworksContaining(initArg, lastCall'.ip) = {}
       THEN lastCall'.network = ""
       ELSE lastCall'.network \in NetworksContaining(initArg, lastCall'.ip)]_vars

\* with netA's range 10.1.9.0/24 configured, 10.1.9.9 was resolved to netA
\* and then 10.1.2.3 to ""
C12_Witness ==
  /\ initArg = MeshOther
  /\ initPc = "idle"
  /\ networkForRegistry = ""
  /\ lastCall.api = "endpointNetwork"
  /\ lastCall.ip = IP1
  /\ lastCall.network = ""
  /\ lastCall.lookup
  /\ endpointNetwork(IP3) = "netA"

\* C13 as stated: when several ranges contain the address, endpointNetwork
\* returns the network that InitNetworkLookup reached first among those
\* with such a range, and logs the warning.
C13_FirstAddedWins ==
  [][(/\ Resolved
      /\ initPc = "idle" /\ networkForRegistry = ""
      /\ Cardinality(NetworksContaining(initArg, lastCall'.ip)) > 1) =>
       /\ lastCall'.warned
       /\ \E i \in 1..Len(insertOrder) :
            /\ insertOrder[i] = lastCall'.network
            /\ insertOrder[i] \in NetworksContaining(initArg, lastCall'.ip)
            /\ \A j \in 1..(i - 1) :
                 insertOrder[j] \notin NetworksContaining(initArg, lastCall'.ip)]_vars

\* the results of endpointNetwork on a controller
Resolution(c) == [ip \in ProbeIPs |-> endpointNetworkOn(c, ip).network]

\* C14 as stated: whatever order InitNetworkLookup ranges over the networks
\* of a configuration in, a controller in the same state before the call
\* resolves every address to the same network after it.
C14_Deterministic ==
  [][(initPc = "loop" /\ initPc' = "idle") =>
       \A o \in Orders(DOMAIN initArg) :
         LET other == InsertNetworks([entries |-> ranger.entries,
                                      registry |-> networkForRegistry], initArg, o)
         IN  Resolution([networkForRegistry |-> other.registry,
                         ranger |-> [set |-> TRUE, entries |-> other.entries]])
               = Resolution([networkForRegistry |-> networkForRegistry',
                             ranger |-> ranger'])]_vars

\* C15: GetPodLocality of a pod whose istio-locality label is not empty
\* returns the locality the label declares, and does not read the node
\* store, whatever the labels of the pod's node are.
C15_LabelWins ==
  lastCall.api = "GetPodLocality"
    /\ LabelOf(lastCall.pod.Labels, "istio-locality") # ""
  => /\ ~lastCall.nodeRead
     /\ lastCall.locality
          = GetLocalityOrDefault(LabelOf(lastCall.pod.Labels, "istio-locality"), "")
     /\ lastCall.pod.Labels \cap {<<"istio-locality", "r8/z8">>} # {}
          => lastCall.locality = "r8/z8"

\* a labelled pod on a node whose labels say r1/z1 resolved to its label
C15_Witness ==
  /\ lastCall.api = "GetPodLocality"
  /\ <<"istio-locality", "r8/z8">> \in lastCall.pod.Labels
  /\ lastCall.pod.NodeName = "n1"
  /\ "n1" \in DOMAIN nodeStore
  /\ lastCall.locality = "r8/z8"

\* C16: GetPodLocality of a pod without the label returns "" when the
\* node of the pod is not in the node store, or has no region and no zone
\* under the beta keys and under the GA keys; for any other node it returns
\* region "/" zone, each read under its beta key or else under its GA key.
C16_NodeLocality ==
  lastCall.api = "GetPodLocality"
    /\ LabelOf(lastCall.pod.Labels, "istio-locality") = ""
  => IF lastCall.pod.NodeName \notin DOMAIN nodeStore
     THEN lastCall.locality = ""
     ELSE LET l == nodeStore[lastCall.pod.NodeName].Labels
              betaRegion == LabelOf(l, "failure-domain.beta.kubernetes.io/region")
              betaZone == LabelOf(l, "failure-domain.beta.kubernetes.io/zone")
              region == IF betaRegion # "" THEN betaRegion
                        ELSE LabelOf(l, "failure-domain.kubernetes.io/region")
              zone == IF betaZone # "" THEN betaZone
                      ELSE LabelOf(l, "failure-domain.kubernetes.io/zone")
          IN  IF region = "" /\ zone = ""
              THEN lastCall.locality = ""
              ELSE lastCall.locality = region \o "/" \o zone

\* a pod without the label on a node the store does not have resolved to ""
C16_Witness ==
  /\ lastCall.api = "GetPodLocality"
  /\ LabelOf(lastCall.pod.Labels, "istio-locality") = ""
  /\ lastCall.pod.NodeName \notin DOMAIN nodeStore
  /\ lastCall.nodeRead
  /\ lastCall.locality = ""

\* C17: InstancesByPort of a Service whose hostname has an entry in
\* externalNameSvcInstanceMap returns the stored instances whose Service
\* is of the namespace of the requested Service, all of them and in their
\* order, and does not ask the Endpoints store.
C17_ExternalNameInstances ==
  lastCall.api = "InstancesByPort"
    /\ lastCall.svc.Hostname \in DOMAIN externalNameSvcInstanceMap
  => /\ ~lastCall.readEndpoints
     /\ lastCall.out
          = SelectSeq(externalNameSvcInstanceMap[lastCall.svc.Hostname],
                      LAMBDA i : i.Service.Namespace = lastCall.svc.Namespace)

\* the ExternalName Service ext was asked for and its stored instances
\* came back
C17_Witness ==
  /\ lastCall.api = "InstancesByPort"
  /\ lastCall.svc.Hostname \in DOMAIN externalNameSvcInstanceMap
  /\ lastCall.svc.Namespace = Namespace
  /\ Len(lastCall.out) > 0
  /\ lastCall.out = externalNameSvcInstanceMap[lastCall.svc.Hostname]

C19_UnnamedOnlyWhenSingle ==
  lastCall.api = "InstancesByPort" /\ lastCall.readEndpoints
  => \A n \in 1..Len(lastCall.out) :
       LET inst == lastCall.out[n]
           ep == epStore[KeyFunc(lastCall.svc.Name, lastCall.svc.Namespace)]
       IN  \E i \in 1..Len(ep.Subsets) :
             /\ \E j \in 1..Len(ep.Subsets[i].Addresses) :
                  ep.Subsets[i].Addresses[j].IP = inst.Address
             /\ \E k \in 1..Len(ep.Subsets[i].Ports) :
                  /\ ep.Subsets[i].Ports[k].Port = inst.Port
                  /\ \/ ep.Subsets[i].Ports[k].Name = inst.ServicePort.Name
                     \/ /\ ep.Subsets[i].Ports[k].Name = ""
                        /\ Len(ep.Subsets[i].Ports) = 1

\* C20: the ServicePort of every instance that InstancesByPort or
\* GetProxyServiceInstances returns, from the pods, from the proxy's
\* metadata or from the Endpoints objects, is one of the ports of the
\* Service of that instance.
C20_ServicePortOfOwnService ==
  lastCall.api \in {"InstancesByPort", "GetProxyServiceInstances"}
  => \A n \in 1..Len(lastCall.out) :
       \E k \in 1..Len(lastCall.out[n].Service.Ports) :
         lastCall.out[n].Service.Ports[k] = lastCall.out[n].ServicePort

\* GetProxyServiceInstances found the pod of the proxy and returned
\* instances of more than one Service port
C20_Witness ==
  /\ lastCall.api = "GetProxyServiceInstances"
  /\ lastCall.tier = "pod"
  /\ \E m, n \in 1..Len(lastCall.out) :
       lastCall.out[m].ServicePort # lastCall.out[n].ServicePort

\* C21: GetProxyServiceInstances for a proxy whose first address is that
\* of a pod in the pod cache, and whose network is not the network
\* endpointNetwork gives that address, returns no instance from the return
\* statement of the network test: the services of the pod, the metadata
\* and the Endpoints objects are not looked at.
C21_NetworkMismatchReturnsEmpty ==
  lastCall.api = "GetProxyServiceInstances"
    /\ Len(lastCall.proxy.IPAddresses) > 0
    /\ lastCall.proxy.IPAddresses[1] \in DOMAIN podCache
    /\ lastCall.proxy.Metadata.Network # endpointNetwork(lastCall.proxy.IPAddresses[1])
  => /\ lastCall.out = <<>>
     /\ lastCall.tier = "networkMismatch"

\* a proxy of no network whose pod is in netA, selected by a Service, and
\* whose metadata would have given instances, got none
C21_Witness ==
  /\ lastCall.api = "GetProxyServiceInstances"
  /\ lastCall.tier = "networkMismatch"
  /\ lastCall.proxy.Metadata.Network = ""
  /\ endpointNetwork(lastCall.proxy.IPAddresses[1]) = "netA"
  /\ \E o \in Orders(DOMAIN svcStore) :
       /\ Len(GetPodServices(podCache[lastCall.proxy.IPAddresses[1]], o)) > 0
       /\ ~getProxyServiceInstancesFromMetadata(lastCall.proxy, o).err
  /\ lastCall.out = <<>>

\* the call that is looked at went through the pod tier: the first address
\* of the proxy is that of a cached pod of the proxy's network, and a
\* Service of the store selects the pod
PodTierCall ==
  /\ lastCall.api = "GetProxyServiceInstances"
  /\ Len(lastCall.proxy.IPAddresses) > 0
  /\ lastCall.proxy.IPAddresses[1] \in DOMAIN podCache
  /\ lastCall.proxy.Metadata.Network = endpointNetwork(lastCall.proxy.IPAddresses[1])
  /\ \E k \in DOMAIN svcStore :
       /\ svcStore[k].Namespace = podCache[lastCall.proxy.IPAddresses[1]].Namespace
       /\ svcStore[k].HasSelector
       /\ svcStore[k].Selector \subseteq podCache[lastCall.proxy.IPAddresses[1]].Labels

\* what the pod tier owes: a Service of the store that selects the pod and
\* is in the Service Map, a port it declares whose target port resolves
\* against the pod, an address of the proxy, and the resolved port; with
\* mapped, only the ports the mapped Service has by name
PodTierExpected(mapped) ==
  LET pod == podCache[lastCall.proxy.IPAddresses[1]]
      hostname(k) == ServiceHostname(svcStore[k].Name, svcStore[k].Namespace,
                                     domainSuffix)
      selecting == {k \in DOMAIN svcStore :
                      /\ svcStore[k].Namespace = pod.Namespace
                      /\ svcStore[k].HasSelector
                      /\ svcStore[k].Selector \subseteq pod.Labels
                      /\ hostname(k) \in DOMAIN servicesMap}
      resolving(k) == {i \in 1..Len(svcStore[k].Ports) :
                         /\ ~FindPort(pod, svcStore[k].Ports[i]).err
                         /\ mapped => Get(servicesMap[hostname(k)].Ports,
                                          svcStore[k].Ports[i].Name).found}
  IN  UNION {{<<hostname(k), svcStore[k].Ports[i].Name,
                lastCall.proxy.IPAddresses[n],
                FindPort(pod, svcStore[k].Ports[i]).port>> :
                i \in resolving(k), n \in 1..Len(lastCall.proxy.IPAddresses)} :
             k \in selecting}

\* the instances of the call that are of one Service, port name, address
\* and port
PodTierHits(t) ==
  {n \in 1..Len(lastCall.out) :
     /\ lastCall.out[n].Service.Hostname = t[1]
     /\ lastCall.out[n].ServicePort.Name = t[2]
     /\ lastCall.out[n].Address = t[3]
     /\ lastCall.out[n].Port = t[4]}

\* C22 as stated: in the pod tier the result has exactly one instance for
\* each selecting Service of the Service Map, each port the Service
\* declares whose target port resolves against the pod, and each address
\* of the proxy, with that address and the resolved port.
C22_EveryDeclaredPort ==
  PodTierCall => \A t \in PodTierExpected(FALSE) : Cardinality(PodTierHits(t)) = 1

\* C22: in the pod tier the result has exactly one instance for each
\* selecting Service of the Service Map, each port the Service declares
\* that the mapped Service has by name and whose target port resolves
\* against the pod, and each address of the proxy, with that address and
\* the resolved port; and it has no other instance.
C22_EveryMappedPort ==
  PodTierCall =>
    /\ \A t \in PodTierExpected(TRUE) : Cardinality(PodTierHits(t)) = 1
    /\ Len(lastCall.out) = Cardinality(PodTierExpected(TRUE))

\* the proxy of the addresses of p1 and p2 got four instances of foo: the
\* numeric port and the named port grpc resolved to 9000, at each address
C22_Witness ==
  /\ PodTierCall
  /\ Len(lastCall.proxy.IPAddresses) = 2
  /\ Len(lastCall.out) = 4
  /\ \E n \in 1..4 : /\ lastCall.out[n].ServicePort.Name = "grpc"
                     /\ lastCall.out[n].Port = 9000
                     /\ lastCall.out[n].Address = IP2

\* C23: GetProxyServiceInstances returns from the pod tier or from the
\* metadata tier only with instances: a tier that has none falls through
\* to the next one.
C23_EmptyTierFallsThrough ==
  lastCall.api = "GetProxyServiceInstances" /\ lastCall.tier \in {"pod", "metadata"}
  => lastCall.out # <<>>

\* the pod tier ended the call with no instance (foo selects the pod and
\* is not in the Service Map yet) while an Endpoints object of the store
\* lists the proxy's address for a Service of the Service Map
C23_EmptyPodTierHidesEndpoints ==
  /\ lastCall.api = "GetProxyServiceInstances"
  /\ lastCall.tier = "pod"
  /\ lastCall.out = <<>>
  /\ \E k \in DOMAIN epStore :
       getProxyServiceInstancesByEndpoint(epStore[k], lastCall.proxy).out # <<>>

\* the call that is looked at came to the metadata tier: the proxy has an
\* address, and its pod is not in the cache or no Service selects it
MetadataTierCall ==
  /\ lastCall.api = "GetProxyServiceInstances"
  /\ Len(lastCall.proxy.IPAddresses) > 0
  /\ lastCall.proxy.IPAddresses[1] \in DOMAIN podCache =>
       /\ lastCall.proxy.Metadata.Network = endpointNetwork(lastCall.proxy.IPAddresses[1])
       /\ ~PodTierCall

\* a target port that the pod ports of the proxy's metadata do not resolve
MetadataPortMiss(proxy, port) ==
  /\ port.TargetPort.Type = "String"
  /\ \A i \in 1..Len(proxy.Metadata.PodPorts) :
       proxy.Metadata.PodPorts[i].Name # port.TargetPort.StrVal

\* a miss of the metadata tier: no labels, another cluster, no Service for
\* the labels, a Service that is not in the Service Map, a port the mapped
\* Service does not have, a target port the metadata does not resolve
MetadataMiss(proxy) ==
  \/ Len(proxy.WorkloadLabels) = 0
  \/ proxy.Metadata.ClusterID # ClusterID
  \/ LET sel == {k \in DOMAIN svcStore :
                   /\ svcStore[k].Namespace = proxy.ConfigNamespace
                   /\ svcStore[k].HasSelector
                   /\ svcStore[k].Selector \subseteq proxy.WorkloadLabels[1]}
         h(k) == ServiceHostname(svcStore[k].Name, svcStore[k].Namespace, domainSuffix)
     IN  \/ sel = {}
         \/ \E k \in sel :
              \/ h(k) \notin DOMAIN servicesMap
              \/ \E i \in 1..Len(svcStore[k].Ports) :
                   \/ ~Get(servicesMap[h(k)].Ports, svcStore[k].Ports[i].Name).found
                   \/ MetadataPortMiss(proxy, svcStore[k].Ports[i])

\* C24: GetProxyServiceInstances never returns an error; it returns from
\* the metadata tier only for a proxy with workload labels and the
\* controller's cluster id; and when the metadata tier is reached and has
\* a miss, the call goes on to the scan of the Endpoints objects and every
\* instance it returns was built from one of them, none from the metadata.
C24_MetadataMissFallsThrough ==
  lastCall.api = "GetProxyServiceInstances" =>
    /\ ~lastCall.err
    /\ lastCall.tier = "metadata" =>
         /\ Len(lastCall.proxy.WorkloadLabels) > 0
         /\ lastCall.proxy.Metadata.ClusterID = ClusterID
         /\ ~MetadataMiss(lastCall.proxy)
    /\ MetadataTierCall /\ MetadataMiss(lastCall.proxy) =>
         /\ lastCall.tier = "headless"
         /\ \A n \in 1..Len(lastCall.out) :
              \E k \in DOMAIN epStore :
                LET r == getProxyServiceInstancesByEndpoint(epStore[k], lastCall.proxy).out
                IN  \E m \in 1..Len(r) : r[m] = lastCall.out[n]

\* a proxy with the labels and the cluster id, for which foo is found and
\* mapped and its port http resolves, but not the target port of its port
\* grpc: the call returned what the Endpoints of foo give, and nothing of
\* what the metadata tier had built
C24_Witness ==
  /\ MetadataTierCall
  /\ Len(lastCall.proxy.WorkloadLabels) > 0
  /\ lastCall.proxy.Metadata.ClusterID = ClusterID
  /\ lastCall.proxy.Metadata.PodPorts = <<>>
  /\ \E k \in DOMAIN svcStore :
       /\ svcStore[k].Name = "foo"
       /\ Len(svcStore[k].Ports) = 2
       /\ "foo.ns.svc.cluster.local" \in DOMAIN servicesMap
       /\ Len(servicesMap["foo.ns.svc.cluster.local"].Ports) = 2
  /\ lastCall.tier = "headless"
  /\ Len(lastCall.out) = 1
  /\ lastCall.out[1].Labels = {}

\* C25: in the result of the scan of the Endpoints objects no instance of
\* an Endpoints object of another namespace comes before an instance of
\* one of the proxy's namespace (an instance has the Service of the
\* name and namespace of its Endpoints object).
C25_SameNamespaceFirst ==
  lastCall.api = "GetProxyServiceInstances" /\ lastCall.tier = "headless" =>
    \A i, j \in 1..Len(lastCall.out) :
      i < j => ~ /\ lastCall.out[i].Service.Namespace # lastCall.proxy.ConfigNamespace
                 /\ lastCall.out[j].Service.Namespace = lastCall.proxy.ConfigNamespace

\* the same for the calls in which the pod of the proxy is in the cache
C25_SameNamespaceFirstWithPod ==
  /\ lastCall.api = "GetProxyServiceInstances"
  /\ lastCall.tier = "headless"
  /\ lastCall.proxy.IPAddresses[1] \in DOMAIN podCache
  => \A i, j \in 1..Len(lastCall.out) :
       i < j => ~ /\ lastCall.out[i].Service.Namespace # lastCall.proxy.ConfigNamespace
                  /\ lastCall.out[j].Service.Namespace = lastCall.proxy.ConfigNamespace

\* what the scan of the Endpoints objects owes a proxy: an Endpoints
\* object whose Service is in the Service Map, a subset, a port of the
\* subset that the Service has by name, and an address of the proxy that
\* the subset lists as ready (or, with notReady, as not ready)
ScanExpected(notReady) ==
  {t \in UNION {UNION {{<<k, i, j, n>> :
                          j \in 1..Len(epStore[k].Subsets[i].Ports),
                          n \in 1..Len(lastCall.proxy.IPAddresses)} :
                       i \in 1..Len(epStore[k].Subsets)} :
                k \in DOMAIN epStore} :
     LET ep == epStore[t[1]]
         ss == ep.Subsets[t[2]]
         hostname == ServiceHostname(ep.Name, ep.Namespace, domainSuffix)
     IN  /\ hostname \in DOMAIN servicesMap
         /\ Get(servicesMap[hostname].Ports, ss.Ports[t[3]].Name).found
         /\ \E a \in 1..Len(IF notReady THEN ss.NotReadyAddresses ELSE ss.Addresses) :
              (IF notReady THEN ss.NotReadyAddresses ELSE ss.Addresses)[a].IP
                = lastCall.proxy.IPAddresses[t[4]]}

\* the instances of the call that are of such an Endpoints object, port
\* and address
ScanHits(t) ==
  {m \in 1..Len(lastCall.out) :
     /\ lastCall.out[m].Service.Hostname
          = ServiceHostname(epStore[t[1]].Name, epStore[t[1]].Namespace, domainSuffix)
     /\ lastCall.out[m].ServicePort.Name = epStore[t[1]].Subsets[t[2]].Ports[t[3]].Name
     /\ lastCall.out[m].Port = epStore[t[1]].Subsets[t[2]].Ports[t[3]].Port
     /\ lastCall.out[m].Address = lastCall.proxy.IPAddresses[t[4]]}

\* one instance for each ready address and one for each not-ready address
ScanCounts ==
  /\ \A t \in ScanExpected(FALSE) \cup ScanExpected(TRUE) :
       Cardinality(ScanHits(t)) = (IF t \in ScanExpected(FALSE) THEN 1 ELSE 0)
                                  + (IF t \in ScanExpected(TRUE) THEN 1 ELSE 0)
  /\ Len(lastCall.out)
       = Cardinality(ScanExpected(FALSE)) + Cardinality(ScanExpected(TRUE))

\* the ProxyStatusEndpointNotReady reports the call added for the proxy
NotReadyReports ==
  {m \in 1..Len(lastCall.reports) :
     /\ lastCall.reports[m].status = "ProxyStatusEndpointNotReady"
     /\ lastCall.reports[m].id = lastCall.proxy.ID}

NoServiceReports ==
  {m \in 1..Len(lastCall.reports) :
     /\ lastCall.reports[m].status = "ProxyStatusNoService"
     /\ lastCall.reports[m].id = lastCall.proxy.ID}

\* C27: a call of GetProxyServiceInstances that returns no instance, on a
\* controller that has an environment, added a ProxyStatusNoService report
\* for the proxy and returned no error.
C27_EmptyResultReported ==
  lastCall.api = "GetProxyServiceInstances" /\ lastCall.out = <<>> /\ Env =>
    /\ NoServiceReports # {}
    /\ ~lastCall.err

\* the same for the calls that return at the end of the function: a proxy
\* without address, or a scan of the Endpoints objects that found nothing
C27_EmptyResultReportedAtEnd ==
  /\ lastCall.api = "GetProxyServiceInstances"
  /\ lastCall.tier \in {"none", "headless"}
  /\ lastCall.out = <<>>
  /\ Env
  => /\ Cardinality(NoServiceReports) = 1
     /\ ~lastCall.err

\* a pod tier that returned no instance and reported nothing, on a
\* controller that has an environment
C27_EmptyPodTierUnreported ==
  /\ lastCall.api = "GetProxyServiceInstances"
  /\ lastCall.tier = "pod"
  /\ lastCall.out = <<>>
  /\ Env
  /\ lastCall.reports = <<>>

\* the Services, service ports, addresses and target ports of instances
InstanceKeys(out) ==
  {<<out[n].Service.Hostname, out[n].ServicePort, out[n].Address, out[n].Port>> :
     n \in 1..Len(out)}

\* the proxy of the call describes its pod in its metadata: its labels are
\* matched by the selectors of the Services that select the pod, and by
\* no other, its cluster id is the controller's, and its pod ports are the
\* container ports of the pod
MetadataDescribesPod ==
  LET pod == podCache[lastCall.proxy.IPAddresses[1]]
      ports == Flatten(pod.Containers)
  IN  /\ Len(lastCall.proxy.WorkloadLabels) > 0
      /\ lastCall.proxy.Metadata.ClusterID = ClusterID
      /\ lastCall.proxy.ConfigNamespace = pod.Namespace
      /\ \A k \in DOMAIN svcStore :
           svcStore[k].HasSelector =>
             (svcStore[k].Selector \subseteq pod.Labels
                <=> svcStore[k].Selector \subseteq lastCall.proxy.WorkloadLabels[1])
      /\ lastCall.proxy.Metadata.PodPorts
           = [i \in 1..Len(ports) |-> [Name |-> ports[i].Name,
                                       ContainerPort |-> ports[i].ContainerPort]]

\* what the metadata tier gives the proxy of the call; it does not read
\* the pod cache, so it is what the tier gives once the pod is removed
MetadataTierResult ==
  getProxyServiceInstancesFromMetadata(lastCall.proxy,
                                       CHOOSE o \in Orders(DOMAIN svcStore) : TRUE)

\* C28: when the pod tier answered for a proxy whose metadata describes
\* its pod, the metadata tier gives, with the pod removed from the cache,
\* instances of the same Services, service ports, addresses and target
\* ports.
C28_MetadataTierEquivalent ==
  PodTierCall /\ MetadataDescribesPod =>
    /\ ~MetadataTierResult.err
    /\ InstanceKeys(MetadataTierResult.out) = InstanceKeys(lastCall.out)

\* the same for a proxy of one address, when every port of the selecting
\* Services is in the Service Map and resolves against the pod
C28_EquivalentForOneAddress ==
  /\ PodTierCall
  /\ MetadataDescribesPod
  /\ Len(lastCall.proxy.IPAddresses) = 1
  /\ PodTierExpected(TRUE) = PodTierExpected(FALSE)
  /\ ~MetadataTierResult.err
  => InstanceKeys(MetadataTierResult.out) = InstanceKeys(lastCall.out)

\* the two tiers agreed on the two instances of foo for the proxy of p1
C28_TiersAgree ==
  /\ PodTierCall
  /\ MetadataDescribesPod
  /\ ~MetadataTierResult.err
  /\ Cardinality(InstanceKeys(lastCall.out)) = 2
  /\ InstanceKeys(MetadataTierResult.out) = InstanceKeys(lastCall.out)

\* the pod tier gave instances at two addresses of the proxy, the metadata
\* tier at the first one only
C28_SecondAddressLost ==
  /\ PodTierCall
  /\ MetadataDescribesPod
  /\ ~MetadataTierResult.err
  /\ Len(lastCall.proxy.IPAddresses) = 2
  /\ \E n \in 1..Len(lastCall.out) : lastCall.out[n].Address = lastCall.proxy.IPAddresses[2]
  /\ \A n \in 1..Len(MetadataTierResult.out) :
       MetadataTierResult.out[n].Address = lastCall.proxy.IPAddresses[1]

\* the lifecycle of the controller: 0 Created, 1 Syncing, 2 Synced,
\* 3 Stopped
LifecyclePhase ==
  IF stopped THEN 3
  ELSE IF runPc = "created" THEN 0
  ELSE IF HasSynced THEN 2
  ELSE 1

\* the lifecycle never moves back, and a task passes notify only in a
\* state where HasSynced holds
LifecycleForward ==
  /\ LifecyclePhase' >= LifecyclePhase
  /\ (workerPc = "idle" /\ workerPc' \in HandlerPositions) => HasSynced

C30_NoPanic ==
  lastCall.api # "" => ~lastCall.panic

\* GetProxyServiceInstances called for a proxy without address returns
\* normally, with no instance and no error
C30_NoAddressHandled ==
  /\ lastCall.api = "GetProxyServiceInstances"
  /\ lastCall.proxy.IPAddresses = <<>>
  => /\ ~lastCall.panic
     /\ ~lastCall.err
     /\ lastCall.out = <<>>

\* GetProxyWorkloadLabels called for a proxy without address ended in a
\* panic
C30_WorkloadLabelsPanic ==
  /\ lastCall.api = "GetProxyWorkloadLabels"
  /\ lastCall.proxy.IPAddresses = <<>>
  /\ lastCall.panic

\* the object of the task is neither of the type of its handler nor a
\* tombstone around an object of that type
UnexpectedObject(t) ==
  IF t.otype = "Services"
  THEN ~IsService(t.obj) /\ ~(IsTombstone(t.obj) /\ IsService(t.obj.Obj))
  ELSE ~IsEndpoints(t.obj) /\ ~(IsTombstone(t.obj) /\ IsEndpoints(t.obj.Obj))

\* C31: the step the Service handler or the Endpoints handler takes with
\* an object that is neither of its type nor a tombstone around its type
\* completes the task with success: the task is not put back, no map and
\* no pod cache entry changes, and nothing is called on the XDSUpdater or
\* the user callback; and once the informers have synced no task is put
\* aside for a retry.
C31_UnexpectedObjectDropped ==
  /\ [][(workerPc \in {"svcLock", "epHandler"} /\ UnexpectedObject(cur)) =>
          /\ done' = Append(done, cur.id)
          /\ workerPc' = "idle"
          /\ cur' = NoTask
          /\ UNCHANGED <<queue, delayed, servicesMap, externalNameSvcInstanceMap,
                         podCache, emitted>>]_vars
  /\ [](AllFourSynced => delayed = {})

\* a Service handler was given an Endpoints object: the task is complete,
\* and the task behind it was handled and made its calls
C31_Witness ==
  /\ Len(pushed) = 2
  /\ pushed[1].otype = "Services"
  /\ UnexpectedObject(pushed[1])
  /\ ~UnexpectedObject(pushed[2])
  /\ done = <<1, 2>>
  /\ \A i \in 1..Len(emitted) : emitted[i].id = 2
  /\ emitted # <<>>

\* C32: GetProxyServiceInstances returns from the metadata tier only for
\* a proxy whose first address has no pod in the pod cache.
C32_MetadataOnlyWithoutPod ==
  lastCall.api = "GetProxyServiceInstances" /\ lastCall.tier = "metadata" =>
    lastCall.proxy.IPAddresses[1] \notin DOMAIN podCache

\* when the pod is in the cache and a Service selects it, the call returns
\* from the pod tier
C32_PodTierWhenSelected ==
  PodTierCall => lastCall.tier = "pod"

\* the pod of the proxy is in the cache, no Service selects it, and the
\* call returned instances built from the labels of the proxy's metadata
C32_MetadataUsedBesidePod ==
  /\ lastCall.api = "GetProxyServiceInstances"
  /\ lastCall.tier = "metadata"
  /\ lastCall.proxy.IPAddresses[1] \in DOMAIN podCache
  /\ lastCall.out # <<>>
  /\ \A n \in 1..Len(lastCall.out) :
       /\ lastCall.out[n].Labels = lastCall.proxy.WorkloadLabels[1]
       /\ lastCall.out[n].Labels # podCache[lastCall.proxy.IPAddresses[1]].Labels

\* the calls updateEDS made in a step: the reports, then the EDSUpdate
NewCalls == SubSeq(emitted', Len(emitted) + 1, Len(emitted'))

\* the EDSUpdate calls made so far
EDSUpdates(calls) == SelectSeq(calls, LAMBDA e : e.call = "EDSUpdate")

\* C33: when updateEDS handles an add or an update, a ready address with
\* no pod in the cache whose TargetRef is a Pod gives no endpoint and, on
\* a controller with an environment, one EndpointNoPod report; no other
\* address is reported; every other ready address gives one endpoint per
\* port of its subset, and without a pod these have no label, no locality
\* and no identity.  No step but the handling of an Endpoints task makes
\* an EDSUpdate call: the address passed over is handed over only by a
\* later Endpoints task.
C33_PodlessAddresses ==
  [][/\ (workerPc = "epHandler" /\ IsEndpoints(cur.obj) /\ ~IsHeadless(cur.obj)
           /\ cur.event # "delete" /\ done' # done) =>
          /\ Last(NewCalls).call = "EDSUpdate"
          /\ \A i \in 1..Len(cur.obj.Subsets) :
               \A j \in 1..Len(cur.obj.Subsets[i].Addresses) :
                 LET ea == cur.obj.Subsets[i].Addresses[j]
                     built == SelectSeq(Last(NewCalls).endpoints,
                                        LAMBDA e : e.Address = ea.IP)
                     reported == SelectSeq(NewCalls,
                                   LAMBDA e : /\ e.call = "PushContext.Add"
                                              /\ e.status = "EndpointNoPod"
                                              /\ e.ip = ea.IP)
                 IN  IF ea.IP \notin DOMAIN podCache /\ ea.TargetRef = "Pod"
                     THEN /\ built = <<>>
                          /\ Len(reported) = (IF Env THEN 1 ELSE 0)
                     ELSE /\ Len(built) = Len(cur.obj.Subsets[i].Ports)
                          /\ reported = <<>>
                          /\ ea.IP \notin DOMAIN podCache =>
                               \A n \in 1..Len(built) :
                                 /\ built[n].Labels = {}
                                 /\ built[n].Locality = ""
                                 /\ built[n].ServiceAccount = ""
     /\ (workerPc # "epHandler" \/ done' = done) =>
          EDSUpdates(emitted') = EDSUpdates(emitted)]_vars

\* the Endpoints of foo were handled before the pod of 10.1.2.3 was cached:
\* that address was passed over and reported, the address without
\* TargetRef was handed over bare; the pod was cached with no call made;
\* the same Endpoints handled again gave both addresses, the first with
\* the labels, the locality and the identity of the pod
C33_Witness ==
  /\ Env
  /\ done = <<1, 2, 3>>
  /\ Len(emitted) = 3
  /\ emitted[1].call = "PushContext.Add" /\ emitted[1].ip = IP1
  /\ emitted[2].call = "EDSUpdate" /\ emitted[2].id = 1
  /\ Len(emitted[2].endpoints) = 1
  /\ emitted[2].endpoints[1].Address = IP2
  /\ emitted[2].endpoints[1].Labels = {}
  /\ emitted[3].call = "EDSUpdate" /\ emitted[3].id = 3
  /\ Len(emitted[3].endpoints) = 2
  /\ emitted[3].endpoints[1].Address = IP1
  /\ emitted[3].endpoints[1].Labels # {}
  /\ emitted[3].endpoints[1].Locality # ""
  /\ emitted[3].endpoints[1].ServiceAccount # ""

\* C34: the handling of an Endpoints object makes one call: with the
\* headless feature on and a headless Service under the key of the
\* Endpoints in the store of the services informer, a full ConfigUpdate
\* for the namespace of the Endpoints and no EDSUpdate; in every other
\* case the EDSUpdate of updateEDS and no ConfigUpdate.
C34_HeadlessFullPushElseEDS ==
  [][(workerPc = "epHandler" /\ IsEndpoints(cur.obj) /\ done' # done) =>
       LET key == KeyFunc(cur.obj.Name, cur.obj.Namespace)
           pushes == SelectSeq(NewCalls, LAMBDA e : e.call = "ConfigUpdate")
       IN  IF /\ headless
              /\ key \in DOMAIN svcStore
              /\ svcStore[key].ClusterIP = ClusterIPNone
           THEN /\ NewCalls = pushes
                /\ Len(pushes) = 1
                /\ pushes[1].full
                /\ pushes[1].namespace = cur.obj.Namespace
                /\ pushes[1].id = cur.id
           ELSE /\ pushes = <<>>
                /\ Len(EDSUpdates(NewCalls)) = 1
                /\ Last(NewCalls) = updateEDS(cur.id, cur.obj, cur.event)]_vars

\* with the feature on, the Endpoints of a headless Service gave a full
\* push for their namespace and no EDSUpdate
C34_Witness ==
  /\ headless
  /\ \E i \in 1..Len(emitted) :
       /\ emitted[i].call = "ConfigUpdate"
       /\ emitted[i].full
       /\ emitted[i].id \in DoneIds
       /\ pushed[emitted[i].id].otype = "Endpoints"
       /\ emitted[i].namespace = pushed[emitted[i].id].obj.Namespace
       /\ Calls("EDSUpdate", emitted[i].id) = {}

\* with the feature on, Endpoints with no headless Service in the store
\* went to updateEDS
C34_FeatureOnNotHeadless ==
  /\ headless
  /\ \E j \in 1..Len(emitted) :
       /\ emitted[j].call = "EDSUpdate"
       /\ pushed[emitted[j].id].otype = "Endpoints"

\* with the feature off, the Endpoints of a headless Service in the store
\* went to updateEDS
C34_FeatureOff ==
  /\ ~headless
  /\ \E j \in 1..Len(emitted) :
       /\ emitted[j].call = "EDSUpdate"
       /\ pushed[emitted[j].id].otype = "Endpoints"
       /\ WasHeadless(pushed[emitted[j].id].obj.Name, pushed[emitted[j].id].obj.Namespace)

\* the informers of nodes, pods and services have finished their listing
ThreeSynced == synced["nodes"] /\ synced["pods"] /\ synced["services"]

\* a step that starts the endpoints informer, one that delivers an event
\* of Endpoints, one that starts the queue worker
StartsEndpoints == ~started["endpoints"] /\ started'["endpoints"]
DeliversEndpoints == lastCb'.n # lastCb.n /\ lastCb'.otype = "Endpoints"
StartsWorker == workerPc = "waitSync" /\ workerPc' # "waitSync"

\* C35 as stated: the endpoints informer is started only once the three
\* other informers are synced or the stop signal was given, no event of
\* Endpoints is delivered before the three are synced, and the queue
\* worker starts only once all four informers are synced.
C35_WorkerAfterAllSynced ==
  [][/\ StartsEndpoints => (ThreeSynced \/ stopped)
     /\ DeliversEndpoints => ThreeSynced
     /\ StartsWorker => HasSynced]_vars

\* C35 amended: the same, the queue worker starting once all four
\* informers are synced or the stop signal was given.
C35_WorkerAfterAllSyncedOrStop ==
  [][/\ StartsEndpoints => (ThreeSynced \/ stopped)
     /\ DeliversEndpoints => ThreeSynced
     /\ StartsWorker => (HasSynced \/ stopped)]_vars

\* the running controller: every informer synced, the worker started, and
\* an event of Endpoints delivered
C35_Witness ==
  /\ ~stopped
  /\ HasSynced
  /\ started["endpoints"]
  /\ workerPc # "waitSync"
  /\ lastCb.otype = "Endpoints"

\* the stop signal came before the endpoints informer had synced, and the
\* worker was started
C35_WorkerStartedByStop ==
  /\ stopped
  /\ ~synced["endpoints"]
  /\ runPc # "created"
  /\ workerPc # "waitSync"

\* the endpoints of a configuration, each with the name of its network
NetworkEndpoints(meshNetworks) ==
  UNION {{[name |-> n, ep |-> meshNetworks[n][i]] : i \in 1..Len(meshNetworks[n])} :
           n \in DOMAIN meshNetworks}

\* the networks of a configuration with an endpoint of this registry
RegistryNetworks(meshNetworks) ==
  {x.name : x \in {y \in NetworkEndpoints(meshNetworks) :
                     y.ep.FromRegistry = ClusterID}}

\* C36: when InitNetworkLookup has ranged over a configuration, the ranger
\* holds an entry for every well-formed range of the configuration and
\* none for a range that does not parse, and networkForRegistry is a
\* network of the configuration with an endpoint of this registry when
\* there is one, whatever ill-formed ranges stand beside it, and is left
\* alone when there is none; a call with no network changes neither the
\* ranger nor networkForRegistry.
C36_InvalidCidrSkipped ==
  [][/\ (initPc = "loop" /\ initPc' = "idle") =>
          /\ \A x \in NetworkEndpoints(initArg) :
               x.ep.HasCidr =>
                 IF x.ep.FromCidr.valid
                 THEN \E e \in ranger'.entries : SameNetwork(e.network, x.ep.FromCidr)
                 ELSE \A e \in ranger'.entries : e.network # x.ep.FromCidr
          /\ \A e \in ranger'.entries :
               \E x \in NetworkEndpoints(initArg) :
                 x.ep.HasCidr /\ x.ep.FromCidr = e.network /\ x.name = e.name
          /\ IF RegistryNetworks(initArg) = {}
             THEN networkForRegistry' = networkForRegistry
             ELSE networkForRegistry' \in RegistryNetworks(initArg)
     /\ (lastCall' # lastCall /\ lastCall'.api = "InitNetworkLookup"
           /\ lastCall'.networks = 0) =>
          UNCHANGED <<ranger, networkForRegistry, initPc, initArg>>]_vars

\* the lookup was built from a configuration with two ranges that do not
\* parse, a well-formed range and an endpoint of this registry: the ranger
\* holds the well-formed range alone and the override is set; a call with
\* no network came after it and left both in place
C36_Witness ==
  /\ initArg = MeshBroken
  /\ initPc = "idle"
  /\ Cardinality(ranger.entries) = 1
  /\ \E e \in ranger.entries : e.name = "netA" /\ e.network = Cidr(<<10, 1, 9, 0>>, 24)
  /\ networkForRegistry = "netB"
  /\ lastCall.api = "InitNetworkLookup"
  /\ lastCall.networks = 0

\* the handler of a Service task releases the lock it wrote the maps under
ServiceWritten == workerPc = "svcWriteExternal" /\ workerPc' = "svcEmit"

\* C37: whenever the lock is not held for writing, every hostname of
\* externalNameSvcInstanceMap is a hostname of servicesMap; when the
\* handler of a Service task releases the lock, a deleted Service is in
\* neither map, and an added or updated one is in servicesMap and has its
\* externally-named instances in externalNameSvcInstanceMap, or no entry
\* there when it has none.
C37_InstancesHaveService ==
  /\ [](lockW = "none" =>
          DOMAIN externalNameSvcInstanceMap \subseteq DOMAIN servicesMap)
  /\ [][ServiceWritten =>
          LET svcConv == ConvertService(cur.obj, domainSuffix, ClusterID)
              instances == ExternalNameServiceInstances(cur.obj, svcConv)
              host == svcConv.Hostname
          IN  /\ lockW' = "none"
              /\ IF cur.event = "delete"
                 THEN /\ host \notin DOMAIN servicesMap'
                      /\ host \notin DOMAIN externalNameSvcInstanceMap'
                 ELSE /\ host \in DOMAIN servicesMap'
                      /\ servicesMap'[host] = svcConv
                      /\ IF instances.isNil
                         THEN host \notin DOMAIN externalNameSvcInstanceMap'
                         ELSE /\ host \in DOMAIN externalNameSvcInstanceMap'
                              /\ externalNameSvcInstanceMap'[host] = instances.list]_vars

\* a Service with externally-named instances was added, and its delete has
\* just been written: the lock is free and both maps have lost it
C37_Witness ==
  /\ done = <<1>>
  /\ pushed[1].otype = "Services" /\ pushed[1].event = "add"
  /\ ~ExternalNameServiceInstances(pushed[1].obj,
        ConvertService(pushed[1].obj, domainSuffix, ClusterID)).isNil
  /\ workerPc = "svcEmit"
  /\ cur.event = "delete"
  /\ cur.obj.Name = pushed[1].obj.Name
  /\ lockW = "none"
  /\ servicesMap = << >>
  /\ externalNameSvcInstanceMap = << >>

\* the instances of a Service are in their map while the lock is free
C37_InstancesPresent ==
  /\ lockW = "none"
  /\ externalNameSvcInstanceMap # << >>

\* the calls of SvcUpdate and of the callback of AppendServiceHandler
ServiceCalls(calls) == SelectSeq(calls, LAMBDA e : e.call \in {"SvcUpdate", "f"})

\* C38: the handler of a Service task calls SvcUpdate and then the
\* callback of AppendServiceHandler, once each and in this order, for a
\* delete as for an add or an update, at a moment when the write lock is
\* free and servicesMap holds the Service of the task under its hostname,
\* or no entry for a delete; no other step makes either call.
C38_NotifiedAfterWrite ==
  [][IF workerPc = "svcEmit" /\ done' # done
     THEN LET svcConv == ConvertService(cur.obj, domainSuffix, ClusterID)
          IN  /\ lockW = "none"
              /\ IF cur.event = "delete"
                 THEN svcConv.Hostname \notin DOMAIN servicesMap
                 ELSE /\ svcConv.Hostname \in DOMAIN servicesMap
                      /\ servicesMap[svcConv.Hostname] = svcConv
              /\ Len(NewCalls) = 2
              /\ NewCalls[1].call = "SvcUpdate"
              /\ NewCalls[1].id = cur.id
              /\ NewCalls[1].name = cur.obj.Name
              /\ NewCalls[1].namespace = cur.obj.Namespace
              /\ NewCalls[1].event = cur.event
              /\ NewCalls[2].call = "f"
              /\ NewCalls[2].id = cur.id
              /\ NewCalls[2].svc = svcConv
              /\ NewCalls[2].event = cur.event
     ELSE ServiceCalls(emitted') = ServiceCalls(emitted)]_vars

\* a Service was added and then deleted: each task gave its SvcUpdate
\* followed by its callback, and the map has lost the Service
C38_Witness ==
  /\ Len(done) = 2
  /\ Len(emitted) = 4
  /\ emitted[1].call = "SvcUpdate" /\ emitted[1].event = "add"
  /\ emitted[2].call = "f" /\ emitted[2].event = "add"
  /\ emitted[3].call = "SvcUpdate" /\ emitted[3].event = "delete"
  /\ emitted[4].call = "f" /\ emitted[4].event = "delete"
  /\ emitted[3].name = emitted[1].name
  /\ servicesMap = << >>

\* the value of the first line of a page that starts with the name of a
\* stat, 0 when no line does
RECURSIVE FirstValue(_, _)
FirstValue(lines, name) ==
  IF lines = <<>> THEN 0
  ELSE IF HasPrefix(Head(lines), name)
       THEN ParseUint(TrimSpace(Split(Head(lines), ":")[2])).val
       ELSE FirstValue(Tail(lines), name)

\* a poll of the update stats returned the Stats
Polled == lastCall.api = "GetUpdateStatusStats" /\ ~lastCall.stats.err

\* C40 as stated: the Stats returned have in CDSUpdatesSuccess the value of
\* cluster_manager.cds.update_success, in CDSUpdatesRejection that of
\* cluster_manager.cds.update_rejected, in the LDS fields those of the two
\* LDS stats, each the value of the first line of the stat and 0 when the
\* page has no such line.
C40_FieldsMatchStats ==
  Polled =>
    LET lines == ReadLines(lastCall.page)
    IN  /\ lastCall.stats.CDSUpdatesSuccess
             = FirstValue(lines, "cluster_manager.cds.update_success")
        /\ lastCall.stats.CDSUpdatesRejection
             = FirstValue(lines, "cluster_manager.cds.update_rejected")
        /\ lastCall.stats.LDSUpdatesSuccess
             = FirstValue(lines, "listener_manager.lds.update_success")
        /\ lastCall.stats.LDSUpdatesRejection
             = FirstValue(lines, "listener_manager.lds.update_rejected")

\* what the code does: the two CDS fields hold each other's stat, the LDS
\* fields their own, first line first and 0 for a stat without line
C40_CdsFieldsSwapped ==
  Polled =>
    LET lines == ReadLines(lastCall.page)
    IN  /\ lastCall.stats.CDSUpdatesSuccess
             = FirstValue(lines, "cluster_manager.cds.update_rejected")
        /\ lastCall.stats.CDSUpdatesRejection
             = FirstValue(lines, "cluster_manager.cds.update_success")
        /\ lastCall.stats.LDSUpdatesSuccess
             = FirstValue(lines, "listener_manager.lds.update_success")
        /\ lastCall.stats.LDSUpdatesRejection
             = FirstValue(lines, "listener_manager.lds.update_rejected")

\* a page with two lines of cluster_manager.cds.update_success, 5 then 9,
\* and no line of the rejections: the 5 is returned as the rejections
C40_SuccessReadAsRejection ==
  /\ Polled
  /\ lastCall.page = "cluster_manager.cds.update_success: 5\n"
                       \o "cluster_manager.cds.update_success: 9\n"
  /\ lastCall.stats.CDSUpdatesRejection = 5
  /\ lastCall.stats.CDSUpdatesSuccess = 0

\* C39 as stated: once the wait command has returned, and with it its
\* context is cancelled, the goroutine of the watcher comes to its end;
\* and an error leaves the error channel only into the hands of the
\* command, which returns it.
C39_GoroutineTerminates ==
  /\ (cmdPc = "returned") ~> (watchPc = "done")
  /\ [][(errorChan # <<>> /\ errorChan' = <<>>) =>
          (cmdPc' = "returned" /\ cmdResult' = "watchError")]_vars

\* the command has returned while the one slot of the results channel is
\* taken and the goroutine is sending the next version: nobody receives
\* any more, and the goroutine stays in its send
C39_SenderBlocked ==
  /\ cmdPc = "returned"
  /\ watchPc = "sendNew"
  /\ Len(resultsChan) = 1

\* the half of C39 that holds: the goroutine never waits to send its
\* error, and the error stays in the channel until the command takes and
\* returns it
C39_ErrorNeverLost ==
  /\ [](watchPc = "sendErr" => errorChan = <<>>)
  /\ [][(errorChan # <<>> /\ errorChan' = <<>>) =>
          (cmdPc' = "returned" /\ cmdResult' = "watchError")]_vars
  /\ [][errorChan # <<>> => (errorChan' = errorChan \/ cmdPc' = "returned")]_vars

====
